---- MODULE Spec2Model ----
(***************************************************************************)
(* A model of the CalDAV client (src/src/calendar-client.ts) and of the    *)
(* helpers it calls.                                                       *)
(*                                                                         *)
(* A JavaScript string is a sequence of symbols.  A symbol is one          *)
(* character, or a run of ordinary characters that no operation of the     *)
(* program splits ("http://test:8000", ".ics").  The values undefined and  *)
(* null are the one-symbol sequences Undefined and Null, which no string   *)
(* of the program contains.  An object is a record with every field of its *)
(* type; a field the object does not have holds Undefined.                 *)
(***************************************************************************)
EXTENDS Integers, Sequences, FiniteSets, TLC

VARIABLES
    live,      \* the call slots in use in this run
    client,    \* the CalendarClient instance: the fields set by its constructor
    pc,        \* per call: where the async function is suspended
    op,        \* per call: the public operation the caller invoked
    fn,        \* per call: the method whose body is executing
    loc,       \* per call: the locals of the executing method
    timers,    \* per call: the timers armed by setTimeout and not yet cleared or fired
    aborted,   \* per call: controller.signal.aborted of the current AbortController
    reqs,      \* per call: the requests handed to fetch, in order
    log,       \* per call: how the transport settled each request, in order
    outcome,   \* per call: how the promise returned to the caller settled
    heap,      \* the configuration objects alive, by reference
    store,     \* the reference that _config of src/src/config.ts holds
    held,      \* the reference the caller holds from its last getConfig()
    configured,\* the arguments of the configure calls since the last resetConfig
    last,      \* the last call made to the configuration store or the constructor
    fun,       \* the helper function a caller applies, "none" when it applies none
    arg,       \* the argument the caller passes to the helper function
    ret        \* what the helper function returned

callVars == <<live, pc, op, fn, loc, timers, aborted, reqs, log, outcome>>
storeVars == <<heap, store, held, configured, last>>
helperVars == <<fun, arg, ret>>

vars == <<live, client, pc, op, fn, loc, timers, aborted, reqs, log, outcome,
          heap, store, held, configured, last, fun, arg, ret>>

Calls == {"c1", "c2"}

----------------------------------------------------------------------------
(* JavaScript values *)

Undefined == <<"#undefined">>
Null == <<"#null">>
NoNumber == -1

\* Boolean(v) of a string-or-nullish value
Truthy(v) == v # Undefined /\ v # Null /\ v # <<>>

\* a || b
OrElse(a, b) == IF Truthy(a) THEN a ELSE b

\* a ?? b, on strings and on numbers
Nullish(a, b) == IF a = Undefined \/ a = Null THEN b ELSE a
NullishNum(a, b) == IF a = NoNumber THEN b ELSE a

----------------------------------------------------------------------------
(* Configuration and construction *)

DEFAULT_BASE_URL == <<"http://xandikos:8000">>
DEFAULT_CALENDAR_PATH == <<"/", "stonewall", "/", "calendars", "/", "calendar", "/">>
DEFAULT_LIST_TIMEOUT == 3000
DEFAULT_QUERY_TIMEOUT == 5000
DEFAULT_SYNC_TIMEOUT == 5000

EmptyConfig ==
    [baseUrl |-> Undefined, calendarPath |-> Undefined,
     listTimeout |-> NoNumber, queryTimeout |-> NoNumber, syncTimeout |-> NoNumber]

TestConfig ==
    [EmptyConfig EXCEPT !.baseUrl = <<"http://test:8000">>,
                        !.calendarPath = <<"/", "cal", "/">>, !.listTimeout = 100]

Configs == {EmptyConfig, TestConfig}

BaseUrlArgs == {Undefined, <<"http://arg:1">>}

\* Constructor that prefers the baseUrl of the configuration to its argument
ConstructorConfigFirst(baseUrl, config) ==
    [baseUrl      |-> Nullish(config.baseUrl, Nullish(baseUrl, DEFAULT_BASE_URL)),
     calendarPath |-> Nullish(config.calendarPath, DEFAULT_CALENDAR_PATH),
     listTimeout  |-> NullishNum(config.listTimeout, DEFAULT_LIST_TIMEOUT),
     queryTimeout |-> NullishNum(config.queryTimeout, DEFAULT_QUERY_TIMEOUT),
     syncTimeout  |-> NullishNum(config.syncTimeout, DEFAULT_SYNC_TIMEOUT)]

\* new CalendarClient(baseUrl) when getConfig() yields config
Constructor(baseUrl, config) ==
    [baseUrl      |-> Nullish(baseUrl, Nullish(config.baseUrl, DEFAULT_BASE_URL)),
     calendarPath |-> Nullish(config.calendarPath, DEFAULT_CALENDAR_PATH),
     listTimeout  |-> NullishNum(config.listTimeout, DEFAULT_LIST_TIMEOUT),
     queryTimeout |-> NullishNum(config.queryTimeout, DEFAULT_QUERY_TIMEOUT),
     syncTimeout  |-> NullishNum(config.syncTimeout, DEFAULT_SYNC_TIMEOUT)]

ICS == <<".ics">>

\* EventUrl without the calendar path
EventUrlOfBase(uid) == client.baseUrl \o uid \o ICS

\* `${this.baseUrl}${this.calendarPath}${uid}.ics`
EventUrl(uid) == client.baseUrl \o client.calendarPath \o uid \o ICS

\* `${this.baseUrl}${this.calendarPath}`
CollectionUrl == client.baseUrl \o client.calendarPath

----------------------------------------------------------------------------
(* The configuration store: src/src/config.ts *)

\* An object of type Partial<CalDAVClientConfig>: keys is the set of its own
\* properties; a property it does not have reads as undefined.
ConfigObject(keys, baseUrl, calendarPath, listTimeout, queryTimeout, syncTimeout) ==
    [keys         |-> keys,
     baseUrl      |-> IF "baseUrl" \in keys THEN baseUrl ELSE Undefined,
     calendarPath |-> IF "calendarPath" \in keys THEN calendarPath ELSE Undefined,
     listTimeout  |-> IF "listTimeout" \in keys THEN listTimeout ELSE NoNumber,
     queryTimeout |-> IF "queryTimeout" \in keys THEN queryTimeout ELSE NoNumber,
     syncTimeout  |-> IF "syncTimeout" \in keys THEN syncTimeout ELSE NoNumber]

\* {}
EmptyObject == ConfigObject({}, Undefined, Undefined, NoNumber, NoNumber, NoNumber)

\* { ...a, ...b }
Spread(a, b) ==
    [keys         |-> a.keys \cup b.keys,
     baseUrl      |-> IF "baseUrl" \in b.keys THEN b.baseUrl ELSE a.baseUrl,
     calendarPath |-> IF "calendarPath" \in b.keys THEN b.calendarPath ELSE a.calendarPath,
     listTimeout  |-> IF "listTimeout" \in b.keys THEN b.listTimeout ELSE a.listTimeout,
     queryTimeout |-> IF "queryTimeout" \in b.keys THEN b.queryTimeout ELSE a.queryTimeout,
     syncTimeout  |-> IF "syncTimeout" \in b.keys THEN b.syncTimeout ELSE a.syncTimeout]

\* the arguments of configure
ConfigArgs ==
    {EmptyObject,
     ConfigObject({"baseUrl"}, <<"http://a">>, Undefined, NoNumber, NoNumber, NoNumber),
     ConfigObject({"baseUrl", "calendarPath"}, <<"http://test:8000">>, <<"/", "b", "/">>,
                  NoNumber, NoNumber, NoNumber),
     ConfigObject({"baseUrl", "listTimeout", "syncTimeout"}, Undefined, Undefined,
                  100, NoNumber, 7000)}

\* what a caller assigns to the object it got from getConfig
Mutations ==
    {ConfigObject({"baseUrl"}, <<"http://mutated">>, Undefined, NoNumber, NoNumber, NoNumber)}

\* the arguments of new CalendarClient(baseUrl)
ConstructorArgs == BaseUrlArgs \cup {Null, <<>>}

\* the most configure calls between two resetConfig calls
MaxConfigures == 2

Refs == {"o1", "o2", "o3"}
NoRef == "none"

\* the reference of a new object: one that neither _config nor the caller holds
NewRef == CHOOSE r \in Refs : r # store /\ r # held

\* the heap h once the objects that nothing refers to are collected
Collect(h, roots) == [r \in Refs |-> IF r \in roots THEN h[r] ELSE EmptyObject]

NoCall == [op |-> "none", baseUrl |-> Undefined]

\* src/src/config.ts is loaded: let _config = {}
StoreLoaded ==
    /\ heap = [r \in Refs |-> EmptyObject]
    /\ store = "o1"
    /\ held = NoRef
    /\ configured = <<>>
    /\ last = NoCall

\* configure that also resolves the settings of the client again
configureRebindsClient ==
    /\ Len(configured) < MaxConfigures
    /\ \E config \in ConfigArgs :
           /\ heap' = Collect([heap EXCEPT ![NewRef] = Spread(heap[store], config)],
                              {NewRef, held})
           /\ configured' = Append(configured, config)
           /\ client' = Constructor(Undefined, Spread(heap[store], config))
    /\ store' = NewRef
    /\ last' = [NoCall EXCEPT !.op = "configure"]
    /\ UNCHANGED <<held, callVars, helperVars>>

\* _config = { ..._config, ...config }
configure ==
    /\ Len(configured) < MaxConfigures
    /\ \E config \in ConfigArgs :
           /\ heap' = Collect([heap EXCEPT ![NewRef] = Spread(heap[store], config)],
                              {NewRef, held})
           /\ configured' = Append(configured, config)
    /\ store' = NewRef
    /\ last' = [NoCall EXCEPT !.op = "configure"]
    /\ UNCHANGED <<held, client, callVars, helperVars>>

\* getConfigOf that hands out the object of the store itself
getConfigOfStore(h, s) == [heap |-> h, ref |-> s]

\* return { ..._config }: the heap after the call and the reference returned
getConfigOf(h, s) ==
    LET r == CHOOSE r \in Refs : r # s
    IN  [heap |-> Collect([h EXCEPT ![r] = Spread(EmptyObject, h[s])], {s, r}), ref |-> r]

\* const config = getConfig(), the caller dropping what it held before
getConfig ==
    /\ heap' = getConfigOf(heap, store).heap
    /\ held' = getConfigOf(heap, store).ref
    /\ last' = [NoCall EXCEPT !.op = "getConfig"]
    /\ UNCHANGED <<store, configured, client, callVars, helperVars>>

\* _config = {}
resetConfig ==
    /\ heap' = Collect([heap EXCEPT ![NewRef] = EmptyObject], {NewRef, held})
    /\ store' = NewRef
    /\ configured' = <<>>
    /\ last' = [NoCall EXCEPT !.op = "resetConfig"]
    /\ UNCHANGED <<held, client, callVars, helperVars>>

\* the caller assigns properties of the object it holds: config.baseUrl = '...'
MutateHeld ==
    /\ held # NoRef
    /\ \E m \in Mutations : heap' = [heap EXCEPT ![held] = Spread(@, m)]
    /\ last' = [NoCall EXCEPT !.op = "mutate"]
    /\ UNCHANGED <<store, held, configured, client, callVars, helperVars>>

\* new CalendarClient(baseUrl): the constructor reads getConfig()
construct ==
    /\ \E baseUrl \in ConstructorArgs :
           /\ LET got == getConfigOf(heap, store)
              IN  client' = Constructor(baseUrl, got.heap[got.ref])
           /\ last' = [op |-> "construct", baseUrl |-> baseUrl]
    /\ UNCHANGED <<heap, store, held, configured, callVars, helperVars>>

----------------------------------------------------------------------------
(* Strings *)

RECURSIVE Flatten(_)
\* the concatenation of a sequence of strings
Flatten(ss) == IF ss = <<>> THEN <<>> ELSE Head(ss) \o Flatten(Tail(ss))

RECURSIVE Join(_, _)
\* parts.join(sep)
Join(parts, sep) ==
    IF parts = <<>> THEN <<>>
    ELSE IF Len(parts) = 1 THEN parts[1]
    ELSE parts[1] \o sep \o Join(Tail(parts), sep)

RECURSIVE ReplaceAll(_, _, _)
\* s.replace(/c/g, r) for a one-character pattern c
ReplaceAll(s, c, r) ==
    IF s = <<>> THEN <<>>
    ELSE (IF Head(s) = c THEN r ELSE <<Head(s)>>) \o ReplaceAll(Tail(s), c, r)

RECURSIVE ReplaceAllPair(_, _, _, _)
\* s.replace(/ab/g, r) for a two-character pattern: leftmost matches, not overlapping
ReplaceAllPair(s, a, b, r) ==
    IF Len(s) < 2 THEN s
    ELSE IF s[1] = a /\ s[2] = b
         THEN r \o ReplaceAllPair(SubSeq(s, 3, Len(s)), a, b, r)
         ELSE <<s[1]>> \o ReplaceAllPair(Tail(s), a, b, r)

RECURSIVE ReplaceFirst(_, _, _)
\* s.replace(c, r) with a string pattern of one symbol: the first occurrence only
ReplaceFirst(s, c, r) ==
    IF s = <<>> THEN <<>>
    ELSE IF Head(s) = c THEN r \o Tail(s)
    ELSE <<Head(s)>> \o ReplaceFirst(Tail(s), c, r)

RECURSIVE SplitOn(_, _)
\* s.split(c): the pieces between the occurrences of the character c
SplitOn(s, c) ==
    IF \A i \in 1..Len(s) : s[i] # c THEN <<s>>
    ELSE LET i == CHOOSE j \in 1..Len(s) : s[j] = c /\ \A k \in 1..(j - 1) : s[k] # c
         IN  <<SubSeq(s, 1, i - 1)>> \o SplitOn(SubSeq(s, i + 1, Len(s)), c)

\* s.substring(from, to) with 0 <= from <= to
Substring(s, from, to) ==
    SubSeq(s, (IF from < Len(s) THEN from ELSE Len(s)) + 1, IF to < Len(s) THEN to ELSE Len(s))

\* s.endsWith('.ics')
EndsWithIcs(s) == Len(s) > 0 /\ s[Len(s)] = ".ics"

Whitespace == {" ", "\n", "\r", "\t"}

RECURSIVE TrimStart(_)
TrimStart(s) == IF s # <<>> /\ Head(s) \in Whitespace THEN TrimStart(Tail(s)) ELSE s

RECURSIVE TrimEnd(_)
TrimEnd(s) ==
    IF s # <<>> /\ s[Len(s)] \in Whitespace THEN TrimEnd(SubSeq(s, 1, Len(s) - 1)) ELSE s

\* s.trim()
Trim(s) == TrimEnd(TrimStart(s))

\* `${v}`: undefined and null are rendered as words
TemplateString(v) ==
    IF v = Undefined THEN <<"undefined">> ELSE IF v = Null THEN <<"null">> ELSE v

----------------------------------------------------------------------------
(* iCalendar codec: src/src/ical-utils.ts *)

Digits == {"0", "1", "2", "3", "4", "5", "6", "7", "8", "9"}

\* The value an operator yields when the code it models throws a RangeError
\* (Date.prototype.toISOString on an invalid date).
Throws == <<"#throws">>

\* A Date is the string its toISOString() yields, or InvalidDate.
InvalidDate == <<"#invalid">>

NowDate ==
    <<"2", "0", "2", "6", "-", "0", "1", "-", "0", "2", "T",
      "0", "3", ":", "0", "4", ":", "0", "5", ".", "6", "7", "8", "Z">>

DateA ==
    <<"2", "0", "2", "5", "-", "0", "7", "-", "1", "5", "T",
      "1", "4", ":", "3", "0", ":", "0", "0", ".", "0", "0", "0", "Z">>

\* the input strings of new Date(...) the model uses
DateAText == <<"2025-07-15T14:30:00Z">>
BadDateText == <<"garbage">>

\* new Date(text)
NewDate(text) == IF text = DateAText THEN DateA ELSE InvalidDate

\* text.replace(/\.\d{3}/, ''): the first dot followed by three digits
RECURSIVE RemoveMillis(_)
RemoveMillis(s) ==
    IF s = <<>> THEN <<>>
    ELSE IF /\ Len(s) >= 4
            /\ s[1] = "."
            /\ s[2] \in Digits /\ s[3] \in Digits /\ s[4] \in Digits
         THEN SubSeq(s, 5, Len(s))
         ELSE <<Head(s)>> \o RemoveMillis(Tail(s))

escapeText(text) ==
    LET str == OrElse(text, <<>>)
    IN  ReplaceAll(ReplaceAll(ReplaceAll(ReplaceAll(str,
            "\\", <<"\\", "\\">>), ";", <<"\\", ";">>), ",", <<"\\", ",">>),
            "\n", <<"\\", "n">>)

\* unescapeText that leaves the doubled backslashes
unescapeTextKeepsBackslashes(text) ==
    ReplaceAllPair(ReplaceAllPair(ReplaceAllPair(text,
        "\\", "n", <<"\n">>), "\\", ",", <<",">>), "\\", ";", <<";">>)

unescapeText(text) ==
    ReplaceAllPair(ReplaceAllPair(ReplaceAllPair(ReplaceAllPair(text,
        "\\", "n", <<"\n">>), "\\", ",", <<",">>), "\\", ";", <<";">>),
        "\\", "\\", <<"\\">>)

formatDateTime(date) ==
    IF date = InvalidDate THEN Throws
    ELSE RemoveMillis(ReplaceAll(ReplaceAll(date, "-", <<>>), ":", <<>>))

\* parseDateTime that takes the two branches the other way round
parseDateTimeDateOnly(value) ==
    IF Len(value) # 8
    THEN Substring(value, 0, 4) \o <<"-">> \o Substring(value, 4, 6) \o <<"-">>
         \o Substring(value, 6, 8)
    ELSE Substring(value, 0, 4) \o <<"-">> \o Substring(value, 4, 6) \o <<"-">>
         \o Substring(value, 6, 8) \o <<"T">> \o Substring(value, 9, 11) \o <<":">>
         \o Substring(value, 11, 13) \o <<":">> \o Substring(value, 13, 15) \o <<"Z">>

parseDateTime(value) ==
    IF Len(value) = 8
    THEN Substring(value, 0, 4) \o <<"-">> \o Substring(value, 4, 6) \o <<"-">>
         \o Substring(value, 6, 8)
    ELSE Substring(value, 0, 4) \o <<"-">> \o Substring(value, 4, 6) \o <<"-">>
         \o Substring(value, 6, 8) \o <<"T">> \o Substring(value, 9, 11) \o <<":">>
         \o Substring(value, 11, 13) \o <<":">> \o Substring(value, 13, 15) \o <<"Z">>

\* event.categories of an event that has none
NoCategories == <<Undefined>>

EmptyEvent ==
    [uid |-> Undefined, title |-> Undefined, description |-> Undefined,
     location |-> Undefined, dtstart |-> Undefined, dtend |-> Undefined,
     createdAt |-> Undefined, updatedAt |-> Undefined, organizer |-> Undefined,
     categories |-> NoCategories, registrationUrl |-> Undefined, rrule |-> Undefined,
     caldavEtag |-> Undefined, caldavUrl |-> Undefined]

\* escapeText of every category
RECURSIVE EscapeEach(_)
EscapeEach(cats) ==
    IF cats = <<>> THEN <<>> ELSE <<escapeText(Head(cats))>> \o EscapeEach(Tail(cats))

CRLF == <<"\r", "\n">>

\* the Date a CREATED or LAST-MODIFIED line is rendered from
DateOrNow(text) == IF Truthy(text) THEN NewDate(text) ELSE NowDate

generateICalData(event) ==
    LET dates == <<NowDate, DateOrNow(event.createdAt), DateOrNow(event.updatedAt)>>
                 \o (IF Truthy(event.dtstart) THEN <<NewDate(event.dtstart)>> ELSE <<>>)
                 \o (IF Truthy(event.dtend) THEN <<NewDate(event.dtend)>> ELSE <<>>)
        lines ==
            << <<"BEGIN", ":", "VCALENDAR">>,
               <<"VERSION", ":", "2.0">>,
               <<"PRODID", ":", "-//Tinyland.dev//Event Calendar//EN">>,
               <<"CALSCALE", ":", "GREGORIAN">>,
               <<"METHOD", ":", "PUBLISH">>,
               <<"BEGIN", ":", "VEVENT">>,
               <<"UID", ":">> \o TemplateString(event.uid),
               <<"DTSTAMP", ":">> \o formatDateTime(NowDate),
               <<"CREATED", ":">> \o formatDateTime(DateOrNow(event.createdAt)),
               <<"LAST-MODIFIED", ":">> \o formatDateTime(DateOrNow(event.updatedAt)),
               <<"SUMMARY", ":">> \o escapeText(OrElse(event.title, <<"Untitled Event">>)) >>
            \o (IF Truthy(event.description)
                THEN << <<"DESCRIPTION", ":">> \o escapeText(event.description) >> ELSE <<>>)
            \o (IF Truthy(event.location)
                THEN << <<"LOCATION", ":">> \o escapeText(event.location) >> ELSE <<>>)
            \o (IF Truthy(event.dtstart)
                THEN << <<"DTSTART", ":">> \o formatDateTime(NewDate(event.dtstart)) >>
                ELSE <<>>)
            \o (IF Truthy(event.dtend)
                THEN << <<"DTEND", ":">> \o formatDateTime(NewDate(event.dtend)) >>
                ELSE <<>>)
            \o (IF Truthy(event.organizer)
                THEN << <<"ORGANIZER", ":">> \o escapeText(event.organizer) >> ELSE <<>>)
            \o (IF event.categories # NoCategories /\ Len(event.categories) > 0
                THEN << <<"CATEGORIES", ":">> \o Join(EscapeEach(event.categories), <<",">>) >>
                ELSE <<>>)
            \o (IF Truthy(event.registrationUrl)
                THEN << <<"URL", ":">> \o event.registrationUrl >> ELSE <<>>)
            \o (IF Truthy(event.rrule)
                THEN << <<"RRULE", ":">> \o event.rrule >> ELSE <<>>)
            \o << <<"STATUS", ":", "CONFIRMED">>,
                  <<"TRANSP", ":", "OPAQUE">>,
                  <<"END", ":", "VEVENT">>,
                  <<"END", ":", "VCALENDAR">> >>
    IN  IF \E i \in 1..Len(dates) : dates[i] = InvalidDate THEN Throws
        ELSE Join(lines, CRLF)

\* icalData.split(/\r?\n/)
RECURSIVE SplitLines(_)
SplitLines(s) ==
    IF \A i \in 1..Len(s) : s[i] # "\n" THEN <<s>>
    ELSE LET i == CHOOSE j \in 1..Len(s) : s[j] = "\n" /\ \A k \in 1..(j - 1) : s[k] # "\n"
             cut == IF i > 1 /\ s[i - 1] = "\r" THEN i - 2 ELSE i - 1
         IN  <<SubSeq(s, 1, cut)>> \o SplitLines(SubSeq(s, i + 1, Len(s)))

\* unescapeText(cat.trim()) of every part
RECURSIVE UnescapeEach(_)
UnescapeEach(parts) ==
    IF parts = <<>> THEN <<>>
    ELSE <<unescapeText(Trim(Head(parts)))>> \o UnescapeEach(Tail(parts))

\* ParseLine that takes the second part of the line for the value
ParseLineSecondPart(event, line) ==
    LET parts == SplitOn(line, ":")
        key   == parts[1]
        value == IF Len(parts) > 1 THEN parts[2] ELSE <<>>
    IN  CASE key = <<"UID">>           -> [event EXCEPT !.uid = value]
          [] key = <<"SUMMARY">>       -> [event EXCEPT !.title = unescapeText(value)]
          [] key = <<"CREATED">>       -> [event EXCEPT !.createdAt = parseDateTime(value)]
          [] key = <<"LAST-MODIFIED">> -> [event EXCEPT !.updatedAt = parseDateTime(value)]
          [] OTHER                     -> event

\* ParseLine whose case 'URL' has no guard: every URL line sets registrationUrl
ParseLineEveryUrl(event, line) ==
    LET parts == SplitOn(line, ":")
        key   == parts[1]
        value == Join(Tail(parts), <<":">>)
    IN  CASE key = <<"UID">> -> [event EXCEPT !.uid = value]
          [] key = <<"URL">> -> [event EXCEPT !.registrationUrl = value]
          [] OTHER           -> event

\* one turn of the loop of parseICalData: the switch on the property name
ParseLine(event, line) ==
    LET parts == SplitOn(line, ":")
        key   == parts[1]
        value == Join(Tail(parts), <<":">>)
    IN  CASE key = <<"UID">>           -> [event EXCEPT !.uid = value]
          [] key = <<"SUMMARY">>       -> [event EXCEPT !.title = unescapeText(value)]
          [] key = <<"DESCRIPTION">>   -> [event EXCEPT !.description = unescapeText(value)]
          [] key = <<"LOCATION">>      -> [event EXCEPT !.location = unescapeText(value)]
          [] key = <<"DTSTART">>       -> [event EXCEPT !.dtstart = parseDateTime(value)]
          [] key = <<"DTEND">>         -> [event EXCEPT !.dtend = parseDateTime(value)]
          [] key = <<"CREATED">>       -> [event EXCEPT !.createdAt = parseDateTime(value)]
          [] key = <<"LAST-MODIFIED">> -> [event EXCEPT !.updatedAt = parseDateTime(value)]
          [] key = <<"ORGANIZER">>     -> [event EXCEPT !.organizer = unescapeText(value)]
          [] key = <<"CATEGORIES">>    ->
                [event EXCEPT !.categories = UnescapeEach(SplitOn(value, ","))]
          [] key = <<"URL">>           ->
                IF ~Truthy(event.registrationUrl)
                THEN [event EXCEPT !.registrationUrl = value] ELSE event
          [] key = <<"RRULE">>         -> [event EXCEPT !.rrule = value]
          [] OTHER                     -> event

RECURSIVE ParseLines(_, _)
ParseLines(event, lines) ==
    IF lines = <<>> THEN event ELSE ParseLines(ParseLine(event, Head(lines)), Tail(lines))

parseICalData(icalData) == ParseLines(EmptyEvent, SplitLines(icalData))

----------------------------------------------------------------------------
(* WebDAV XML layer: src/src/xml-utils.ts *)

(* The XML parser is a library.  A response body is modelled by what       *)
(* xmlParser.parse makes of it: it throws, or it yields a tree in which    *)
(* response, propstat and prop are sequences.  A tree is a record          *)
(*   [throws, multistatus, syncToken, response, regexHrefs]                *)
(* where multistatus tells whether the root has a truthy multistatus,      *)
(* syncToken is multistatus['sync-token'], and regexHrefs are the texts    *)
(* of the href elements of the raw body, which the fallback pattern        *)
(* <href>...ics</href> is matched against when the parser throws.  A       *)
(* response is [href, propstat], a propstat [status, prop], a prop         *)
(* [getetag, calendarData].  A text node the parser turned into a number   *)
(* is NonString.                                                           *)

NonString == <<"#number">>

\* value.includes('200') / value.includes('404') on a status line
Includes(value, code) == \E i \in 1..Len(value) : value[i] = code

\* the href of every response, in document order
RECURSIVE HrefsOf(_)
HrefsOf(responses) ==
    IF responses = <<>> THEN <<>> ELSE <<Head(responses).href>> \o HrefsOf(Tail(responses))

\* IsIcsHref that takes every string
IsIcsHrefAnyString(href) == Truthy(href) /\ href # NonString

IsIcsHref(href) == Truthy(href) /\ href # NonString /\ EndsWithIcs(href)

\* /<(?:D:)?href>([^<]+\.ics)<\/(?:D:)?href>/ on an href element with this text:
\* at least one character, then .ics
MatchesHrefPattern(text) == Len(text) >= 2 /\ text[Len(text)] = ".ics"

extractHrefsFromPropfind(xml) ==
    IF xml.throws THEN SelectSeq(xml.regexHrefs, MatchesHrefPattern)
    ELSE IF ~xml.multistatus THEN <<>>
    ELSE SelectSeq(HrefsOf(xml.response), IsIcsHref)

\* the events of the props of one propstat whose status contains 200
RECURSIVE EventsOfProps(_, _, _)
EventsOfProps(props, href, baseUrl) ==
    IF props = <<>> THEN <<>>
    ELSE LET prop == Head(props)
             decoded == parseICalData(prop.calendarData)
             withEtag == IF Truthy(prop.getetag)
                         THEN [decoded EXCEPT !.caldavEtag = prop.getetag] ELSE decoded
             event == IF Truthy(href)
                      THEN [withEtag EXCEPT !.caldavUrl = baseUrl \o TemplateString(href)]
                      ELSE withEtag
         IN  (IF Truthy(prop.calendarData) /\ prop.calendarData # NonString
              THEN <<event>> ELSE <<>>)
             \o EventsOfProps(Tail(props), href, baseUrl)

RECURSIVE EventsOfPropstats(_, _, _)
EventsOfPropstats(propstats, href, baseUrl) ==
    IF propstats = <<>> THEN <<>>
    ELSE LET status == OrElse(Head(propstats).status, <<>>)
         IN  (IF Includes(status, "200")
              THEN EventsOfProps(Head(propstats).prop, href, baseUrl) ELSE <<>>)
             \o EventsOfPropstats(Tail(propstats), href, baseUrl)

RECURSIVE EventsOfResponses(_, _)
EventsOfResponses(responses, baseUrl) ==
    IF responses = <<>> THEN <<>>
    ELSE EventsOfPropstats(Head(responses).propstat, Head(responses).href, baseUrl)
         \o EventsOfResponses(Tail(responses), baseUrl)

\* status.includes is not a function: some propstat the loops reach has a
\* status that is not a string
StatusThrows(responses) ==
    \E i \in 1..Len(responses) : \E j \in 1..Len(responses[i].propstat) :
        responses[i].propstat[j].status = NonString

\* parseCalendarQueryResponse that returns the events it decoded before the
\* response it throws on
parseCalendarQueryResponsePartial(xml, baseUrl) ==
    IF xml.throws THEN <<>>
    ELSE IF ~xml.multistatus THEN <<>>
    ELSE LET bad == {i \in 1..Len(xml.response) : StatusThrows(<<xml.response[i]>>)}
             first == IF bad = {} THEN Len(xml.response) + 1
                      ELSE CHOOSE i \in bad : \A k \in bad : i <= k
         IN  EventsOfResponses(SubSeq(xml.response, 1, first - 1), baseUrl)

parseCalendarQueryResponse(xml, baseUrl) ==
    IF xml.throws THEN <<>>
    ELSE IF ~xml.multistatus THEN <<>>
    ELSE IF StatusThrows(xml.response) THEN <<>>
    ELSE EventsOfResponses(xml.response, baseUrl)

\* A result object: keys are the properties the object has.
Result(keys, success, syncToken, changes, error, skipped) ==
    [keys |-> keys, success |-> success, syncToken |-> syncToken, changes |-> changes,
     error |-> error, skipped |-> skipped]

FailureResult(error) ==
    Result({"success", "error"}, FALSE, Undefined, <<>>, error, FALSE)

SkippedResult(error) ==
    Result({"success", "skipped", "error"}, FALSE, Undefined, <<>>, error, TRUE)

\* the loop over the props of a 200 propstat: etag = prop.getetag, the last one stays
RECURSIVE EtagOfProps(_, _)
EtagOfProps(props, etag) ==
    IF props = <<>> THEN etag ELSE EtagOfProps(Tail(props), Head(props).getetag)

\* ChangeOfPropstats in which a later 200 makes the change 'modified' again
RECURSIVE ChangeOfPropstatsLastWins(_, _, _)
\* ChangeOfPropstats that never reads the getetag of a 200 propstat
RECURSIVE ChangeOfPropstatsNoEtag(_, _, _)
ChangeOfPropstatsNoEtag(propstats, status, etag) ==
    IF propstats = <<>> THEN <<status, etag>>
    ELSE LET statusStr == OrElse(Head(propstats).status, <<>>)
         IN  IF Includes(statusStr, "404")
             THEN ChangeOfPropstatsNoEtag(Tail(propstats), "deleted", etag)
             ELSE ChangeOfPropstatsNoEtag(Tail(propstats), status, etag)

ChangeOfPropstatsLastWins(propstats, status, etag) ==
    IF propstats = <<>> THEN <<status, etag>>
    ELSE LET statusStr == OrElse(Head(propstats).status, <<>>)
         IN  IF Includes(statusStr, "404")
             THEN ChangeOfPropstatsLastWins(Tail(propstats), "deleted", etag)
             ELSE IF Includes(statusStr, "200")
             THEN ChangeOfPropstatsLastWins(Tail(propstats), "modified",
                                            EtagOfProps(Head(propstats).prop, etag))
             ELSE ChangeOfPropstatsLastWins(Tail(propstats), status, etag)

\* the loop over the propstats of one response: <<status, etag>>
RECURSIVE ChangeOfPropstats(_, _, _)
ChangeOfPropstats(propstats, status, etag) ==
    IF propstats = <<>> THEN <<status, etag>>
    ELSE LET statusStr == OrElse(Head(propstats).status, <<>>)
         IN  IF Includes(statusStr, "404")
             THEN ChangeOfPropstats(Tail(propstats), "deleted", etag)
             ELSE IF Includes(statusStr, "200")
             THEN ChangeOfPropstats(Tail(propstats), status,
                                    EtagOfProps(Head(propstats).prop, etag))
             ELSE ChangeOfPropstats(Tail(propstats), status, etag)

RECURSIVE ChangesOf(_)
ChangesOf(responses) ==
    IF responses = <<>> THEN <<>>
    ELSE LET resp == Head(responses)
             c == ChangeOfPropstats(resp.propstat, "modified", Undefined)
         IN  (IF Truthy(resp.href) /\ resp.href # NonString /\ EndsWithIcs(resp.href)
              THEN <<[href |-> resp.href, etag |-> c[2], status |-> c[1]]>> ELSE <<>>)
             \o ChangesOf(Tail(responses))

\* statusStr.includes is not a function, in a response the loop does not skip
SyncStatusThrows(responses) ==
    \E i \in 1..Len(responses) :
        /\ Truthy(responses[i].href) /\ responses[i].href # NonString
        /\ \E j \in 1..Len(responses[i].propstat) :
               responses[i].propstat[j].status = NonString

\* parseSyncCollectionResponse that gives a successful result an empty token
\* when the body has none
parseSyncCollectionResponseEmptyToken(xml) ==
    IF xml.throws THEN FailureResult(<<"Failed to parse sync response">>)
    ELSE IF ~xml.multistatus THEN FailureResult(<<"Invalid sync response">>)
    ELSE IF SyncStatusThrows(xml.response)
    THEN FailureResult(<<"Failed to parse sync response">>)
    ELSE Result({"success", "syncToken", "changes"}, TRUE, OrElse(xml.syncToken, <<>>),
                ChangesOf(xml.response), Undefined, FALSE)

parseSyncCollectionResponse(xml) ==
    IF xml.throws THEN FailureResult(<<"Failed to parse sync response">>)
    ELSE IF ~xml.multistatus THEN FailureResult(<<"Invalid sync response">>)
    ELSE IF SyncStatusThrows(xml.response)
    THEN FailureResult(<<"Failed to parse sync response">>)
    ELSE Result({"success", "syncToken", "changes"}, TRUE, xml.syncToken,
                ChangesOf(xml.response), Undefined, FALSE)

----------------------------------------------------------------------------
(* Request bodies *)

\* the body of the PROPFIND of listEvents
PropfindBody == <<"<propfind><prop><getcontenttype/><getetag/><displayname/></prop></propfind>">>

NoFilters == [from |-> Undefined, to |-> Undefined]

buildCalendarQueryXml(filters) ==
    LET start == IF Truthy(filters.from) THEN formatDateTime(NewDate(filters.from))
                 ELSE <<"19700101T000000Z">>
        end   == IF Truthy(filters.to) THEN formatDateTime(NewDate(filters.to))
                 ELSE <<"20991231T235959Z">>
        timeRangeFilter ==
            IF Truthy(filters.from) \/ Truthy(filters.to)
            THEN <<"<C:time-range start=">> \o start \o <<" end=">> \o end \o <<"/>">>
            ELSE <<>>
    IN  IF (Truthy(filters.from) \/ Truthy(filters.to)) /\ (start = Throws \/ end = Throws)
        THEN Throws
        ELSE <<"<C:calendar-query><D:prop><D:getetag/><C:calendar-data/></D:prop><C:filter><C:comp-filter name=VCALENDAR><C:comp-filter name=VEVENT>">>
             \o timeRangeFilter
             \o <<"</C:comp-filter></C:comp-filter></C:filter></C:calendar-query>">>

buildSyncCollectionXml(syncToken) ==
    LET tokenElement == IF Truthy(syncToken)
                        THEN <<"<D:sync-token>">> \o syncToken \o <<"</D:sync-token>">>
                        ELSE <<"<D:sync-token/>">>
    IN  <<"<D:sync-collection>">> \o tokenElement
        \o <<"<D:sync-level>1</D:sync-level><D:prop><D:getetag/></D:prop></D:sync-collection>">>

----------------------------------------------------------------------------
(* The transport: fetch, its responses and its failures *)

\* The statuses a server answers with.
Statuses == {200, 403, 404, 405, 412, 500, 501}

\* An entity tag is never empty (RFC 7232, section 2.3); the client itself never
\* stores an empty caldavEtag either (getEvent, parseCalendarQueryResponse and
\* the results of createEventWithETag and updateEvent drop an empty value).
\* The server holds the tag "e2"; a caller may still hold the older "e1".
Etags == {<<"e2">>}

\* response.headers.get('ETag'): null when the response has no such header
EtagHeaders == Etags \cup {Null}

Responses == [status : Statuses, etag : EtagHeaders]

\* The responses to a request. The client reads the ETag header of the responses
\* to PUT, GET and HEAD only, so the other responses are drawn without it. A
\* server supports GET and HEAD (RFC 7231, section 4.1) and the client sends
\* neither with a precondition, so neither is answered 405, 412 or 501.
ResponsesTo(request) ==
    CASE request.method = "PUT" -> Responses
      [] request.method \in {"GET", "HEAD"} ->
             {response \in Responses : response.status \notin {405, 412, 501}}
      [] OTHER -> {response \in Responses : response.etag = Null}

NoResponse == [status |-> 0, etag |-> Null]

\* response.ok
Ok(response) == response.status >= 200 /\ response.status <= 299

\* response.statusText
StatusText(response) ==
    CASE response.status = 200 -> <<"OK">>
      [] response.status = 403 -> <<"Forbidden">>
      [] response.status = 404 -> <<"Not Found">>
      [] response.status = 405 -> <<"Method Not Allowed">>
      [] response.status = 412 -> <<"Precondition Failed">>
      [] response.status = 500 -> <<"Internal Server Error">>
      [] response.status = 501 -> <<"Not Implemented">>
      [] OTHER -> <<>>

\* A thrown value: isError is `error instanceof Error`, str is String(error).
Thrown(isError, name, message, str) ==
    [isError |-> isError, name |-> name, message |-> message, str |-> str,
     localEtag |-> Undefined, remoteEtag |-> Undefined]

\* new Error(message)
Error(message) == Thrown(TRUE, <<"Error">>, message, <<"Error", ": ">> \o message)

\* new CalDAVConflictError(message, localEtag, remoteEtag)
CalDAVConflictError(message, localEtag, remoteEtag) ==
    [isError |-> TRUE, name |-> <<"CalDAVConflictError">>, message |-> message,
     str |-> <<"CalDAVConflictError", ": ">> \o message,
     localEtag |-> localEtag, remoteEtag |-> remoteEtag]

\* what toISOString throws on an invalid date
RangeError ==
    Thrown(TRUE, <<"RangeError">>, <<"Invalid time value">>,
           <<"RangeError", ": ", "Invalid time value">>)

NoError == Thrown(FALSE, Undefined, Undefined, Undefined)

\* The ways a fetch or a body read fails: the request was aborted, the network
\* failed, or the transport rejected with a value that is not an Error.
AbortError == Thrown(TRUE, <<"AbortError">>, <<"Aborted">>, <<"AbortError", ": ", "Aborted">>)
NetworkError ==
    Thrown(TRUE, <<"TypeError">>, <<"Network failure">>, <<"TypeError", ": ", "Network failure">>)
ThrownString == Thrown(FALSE, Undefined, Undefined, <<"boom">>)

Failures == {AbortError, NetworkError, ThrownString}

\* error instanceof Error && error.name === 'AbortError'
IsAbortError(error) == error.isError /\ error.name = <<"AbortError">>

\* a request as handed to fetch; a header the request does not carry is Undefined
Request(method, url, contentType, ifNoneMatch, ifMatch, depth, body, signal) ==
    [method |-> method, url |-> url,
     headers |-> [contentType |-> contentType, ifNoneMatch |-> ifNoneMatch,
                  ifMatch |-> ifMatch, depth |-> depth],
     body |-> body, signal |-> signal]

----------------------------------------------------------------------------
(* The inputs of the operations *)

U1 == <<"u1">>
U2 == <<"u2">>
E1 == <<"e1">>
E2 == <<"e2">>

\* `${Date.now()}-${Math.random().toString(36).substr(2, 9)}@stonewallunderground.com`
GeneratedUid == <<"1767323045678-k3j2h1g0f", "@stonewallunderground.com">>

\* the events handed to createEvent and createEventWithETag
CreateInputs ==
    {EmptyEvent,
     [EmptyEvent EXCEPT !.uid = <<>>],
     [EmptyEvent EXCEPT !.uid = U1],
     [EmptyEvent EXCEPT !.uid = U2, !.title = <<"Body Test">>, !.caldavEtag = E1],
     [EmptyEvent EXCEPT !.uid = U1, !.dtstart = BadDateText]}

\* the events handed to updateEvent
UpdateInputs ==
    {EmptyEvent,
     [EmptyEvent EXCEPT !.caldavEtag = E1],
     [EmptyEvent EXCEPT !.uid = U2, !.caldavEtag = E2],
     [EmptyEvent EXCEPT !.updatedAt = BadDateText]}

Uids == {U1, U2}

\* the bodies a GET of an event is answered with
IcalBodies ==
    {generateICalData([EmptyEvent EXCEPT !.uid = U2, !.title = <<"a", ",", "b">>,
                                         !.dtstart = DateAText,
                                         !.registrationUrl = <<"https", ":", "//x">>]),
     <<"not an event">>}

----------------------------------------------------------------------------
(* The bodies the server answers PROPFIND and REPORT with *)

MaxHrefs == 2

HrefCollection == <<"/", "cal", "/">>
HrefU1 == <<"/", "cal", "/", "u1", ".ics">>
HrefU2 == <<"/", "cal", "/", "u2", ".ics">>
HrefNoUid == <<"/", "cal", "/", ".ics">>

HrefInputs == {HrefCollection, HrefU1, HrefU2, HrefNoUid}

Status200 == <<"HTTP/1.1 ", "200", " OK">>
Status404 == <<"HTTP/1.1 ", "404", " Not Found">>

Xml(throws, multistatus, syncToken, response, regexHrefs) ==
    [throws |-> throws, multistatus |-> multistatus, syncToken |-> syncToken,
     response |-> response, regexHrefs |-> regexHrefs]

\* a well-formed multistatus document
Multistatus(syncToken, response) == Xml(FALSE, TRUE, syncToken, response, <<>>)

\* a body the parser throws on: regexHrefs are the texts of its href elements
Unparsable(regexHrefs) == Xml(TRUE, FALSE, Undefined, <<>>, regexHrefs)

\* a body with no multistatus root ('not xml at all')
NotMultistatus == Xml(FALSE, FALSE, Undefined, <<>>, <<>>)

Response(href, propstat) == [href |-> href, propstat |-> propstat]
Propstat(status, prop) == [status |-> status, prop |-> prop]
Prop(getetag, calendarData) == [getetag |-> getetag, calendarData |-> calendarData]

\* the sequences over S of length at most n
RECURSIVE SeqsUpTo(_, _)
SeqsUpTo(S, n) ==
    IF n = 0 THEN {<<>>}
    ELSE LET shorter == SeqsUpTo(S, n - 1)
         IN  shorter \cup {Append(q, x) : q \in shorter, x \in S}

PropfindResponse(href) == Response(href, <<Propstat(Status200, <<Prop(E1, Undefined)>>)>>)

PropfindBodies ==
    {Unparsable(<<HrefU1>>), NotMultistatus}
    \cup {Multistatus(Undefined, [i \in 1..Len(hs) |-> PropfindResponse(hs[i])]) :
              hs \in SeqsUpTo(HrefInputs, MaxHrefs)}

IcalU1 == generateICalData([EmptyEvent EXCEPT !.uid = U1])
IcalU2 == generateICalData([EmptyEvent EXCEPT !.uid = U2])

QueryBodies ==
    {Unparsable(<<>>),
     NotMultistatus,
     Multistatus(Undefined, <<>>),
     Multistatus(Undefined,
         <<Response(HrefU1, <<Propstat(Status200, <<Prop(E1, IcalU1)>>)>>),
           Response(HrefU2, <<Propstat(Status404, <<Prop(E2, IcalU2)>>),
                              Propstat(Status200, <<Prop(Undefined, IcalU2)>>)>>)>>),
     Multistatus(Undefined,
         <<Response(HrefU1, <<Propstat(Status200, <<Prop(E1, IcalU1)>>)>>),
           Response(HrefU2, <<Propstat(NonString, <<Prop(E2, IcalU2)>>)>>)>>)}

T1 == <<"http://example.com/sync/token-1">>
T2 == <<"http://example.com/sync/token-2">>

SyncBodies ==
    {Unparsable(<<>>),
     NotMultistatus,
     Multistatus(T2, <<>>),
     Multistatus(T2,
         <<Response(HrefU1, <<Propstat(Status200, <<Prop(E1, Undefined)>>)>>),
           Response(HrefU2, <<Propstat(Status404, <<Prop(Undefined, Undefined)>>)>>),
           Response(HrefCollection, <<Propstat(Status200, <<Prop(E2, Undefined)>>)>>)>>),
     Multistatus(Undefined,
         <<Response(HrefU1, <<Propstat(Status404, <<>>),
                              Propstat(Status200, <<Prop(E1, Undefined)>>)>>)>>),
     Multistatus(T2,
         <<Response(HrefU1, <<Propstat(NonString, <<Prop(E1, Undefined)>>)>>)>>)}

\* the filters handed to queryEvents (no filters at all reads as no from and no to)
FilterInputs ==
    {NoFilters,
     [from |-> DateAText, to |-> Undefined],
     [from |-> Undefined, to |-> BadDateText]}

\* the sync tokens handed to syncCollection
SyncTokenInputs == {Undefined, T1}


----------------------------------------------------------------------------
(* The state of a call *)

\* The locals of getEvent when listEvents calls it: they are gone when it returns.
NoItem == [uid |-> Undefined, response |-> NoResponse]

\* The locals of a method: its parameters uid and event, the response of its
\* fetch, the error its catch binds, the hrefs of listEvents with the position
\* of its loop, the events collected so far, and the frame of the getEvent
\* that listEvents is awaiting.
NoLocals ==
    [uid |-> Undefined, event |-> EmptyEvent, response |-> NoResponse, error |-> NoError,
     hrefs |-> <<>>, next |-> 1, events |-> <<>>, item |-> NoItem]

Pending == [kind |-> "pending", value |-> Undefined, error |-> NoError]
Returned(value) == [kind |-> "returned", value |-> value, error |-> NoError]
Threw(error) == [kind |-> "threw", value |-> Undefined, error |-> error]

\* What the transport did with a request: the status of the response, and
\* whether the fetch or the read of the body failed.
Reply(response) == [status |-> response.status, failed |-> FALSE]
Failure == [status |-> 0, failed |-> TRUE]

\* no method of the client has been called
NoCallMade ==
    /\ pc = [c \in Calls |-> "idle"]
    /\ op = [c \in Calls |-> "none"]
    /\ fn = [c \in Calls |-> "none"]
    /\ loc = [c \in Calls |-> NoLocals]
    /\ timers = [c \in Calls |-> {}]
    /\ aborted = [c \in Calls |-> FALSE]
    /\ reqs = [c \in Calls |-> <<>>]
    /\ log = [c \in Calls |-> <<>>]
    /\ outcome = [c \in Calls |-> Pending]

\* what a helper function returned: nothing before the call
NotCalled == [done |-> FALSE, value |-> Undefined]
Value(v) == [done |-> TRUE, value |-> v]

\* no helper function has been applied
NoHelperCalled == fun = "none" /\ arg = Undefined /\ ret = NotCalled

Init ==
    /\ live = {"c1"}
    /\ \E baseUrl \in BaseUrlArgs : \E config \in Configs :
           client = Constructor(baseUrl, config)
    /\ NoCallMade
    /\ StoreLoaded
    /\ NoHelperCalled

\* the caller invokes the operation o: the method body starts to run
Invoke(c, o) ==
    /\ c \in live
    /\ pc[c] = "idle"
    /\ op' = [op EXCEPT ![c] = o]
    /\ fn' = [fn EXCEPT ![c] = o]

\* fetch(request) is called and the method awaits it, suspended at `at`
FetchAt(c, at, request, locals) ==
    /\ reqs' = [reqs EXCEPT ![c] = Append(@, request)]
    /\ loc' = [loc EXCEPT ![c] = locals]
    /\ pc' = [pc EXCEPT ![c] = at]
    /\ outcome' = outcome

Fetch(c, request, locals) == FetchAt(c, "fetch", request, locals)

\* the promise of the operation settles
Settle(c, result) ==
    /\ pc' = [pc EXCEPT ![c] = "done"]
    /\ outcome' = [outcome EXCEPT ![c] = result]

\* the method f is suspended at `at`
Awaiting(c, f, at) == pc[c] = at /\ fn[c] = f

\* the fetch in flight resolves with response
Replied(c, response) == log' = [log EXCEPT ![c] = Append(@, Reply(response))]

\* the awaited fetch (at "fetch", "itemFetch") or the awaited response.text() rejects
Rejected(c) ==
    log' = IF pc[c] \in {"fetch", "itemFetch"}
           THEN [log EXCEPT ![c] = Append(@, Failure)]
           ELSE [log EXCEPT ![c][Len(log[c])].failed = TRUE]

----------------------------------------------------------------------------
(* createEvent, createEventWithETag, updateEvent, deleteEvent, getEvent *)

PutCreate(uid, icalData) ==
    Request("PUT", EventUrl(uid), <<"text/calendar">>, <<"*">>, Undefined, Undefined,
            icalData, FALSE)

\* the uid createEvent and createEventWithETag use
CreateUid(event) == OrElse(event.uid, GeneratedUid)

\* the body of createEvent and of createEventWithETag up to the await
CreateStart(c, event) ==
    LET uid == CreateUid(event)
        icalData == generateICalData([event EXCEPT !.uid = uid])
    IN  IF icalData = Throws
        THEN /\ Settle(c, Threw(RangeError))
             /\ loc' = [loc EXCEPT ![c] = [NoLocals EXCEPT !.uid = uid, !.event = event]]
             /\ reqs' = reqs
        ELSE Fetch(c, PutCreate(uid, icalData),
                   [NoLocals EXCEPT !.uid = uid, !.event = event])

createEvent(c) ==
    /\ Invoke(c, "createEvent")
    /\ \E event \in CreateInputs : CreateStart(c, event)
    /\ UNCHANGED <<live, client, timers, aborted, log>>

createEventWithETag(c) ==
    /\ Invoke(c, "createEventWithETag")
    /\ \E event \in CreateInputs : CreateStart(c, event)
    /\ UNCHANGED <<live, client, timers, aborted, log>>

AlreadyExists(uid) ==
    Error(<<"Calendar event with UID ">> \o uid \o <<" ", "already exists">>)

\* new Error(`${what}: ${response.statusText}`)
Failed(what, response) == Error(<<what, ": ">> \o StatusText(response))

\* createEventResult without the test for 412: a conflict reads as any failure
createEventResultNo412(uid, response) ==
    IF ~Ok(response) THEN Threw(Failed("Failed to create calendar event", response))
    ELSE Returned(uid)

\* createEvent after the await
createEventResult(uid, response) ==
    IF response.status = 412 THEN Threw(AlreadyExists(uid))
    ELSE IF ~Ok(response) THEN Threw(Failed("Failed to create calendar event", response))
    ELSE Returned(uid)

\* createEventWithETag after the await
createEventWithETagResult(uid, response) ==
    IF response.status = 412 THEN Threw(AlreadyExists(uid))
    ELSE IF ~Ok(response) THEN Threw(Failed("Failed to create calendar event", response))
    ELSE Returned([uid |-> uid, etag |-> OrElse(response.etag, Undefined)])

createEventResponse(c) ==
    /\ Awaiting(c, "createEvent", "fetch")
    /\ \E response \in ResponsesTo(reqs[c][Len(reqs[c])]) :
           /\ Replied(c, response)
           /\ Settle(c, createEventResult(loc[c].uid, response))
           /\ loc' = [loc EXCEPT ![c].response = response]
    /\ UNCHANGED <<live, client, op, fn, timers, aborted, reqs>>

createEventWithETagResponse(c) ==
    /\ Awaiting(c, "createEventWithETag", "fetch")
    /\ \E response \in ResponsesTo(reqs[c][Len(reqs[c])]) :
           /\ Replied(c, response)
           /\ Settle(c, createEventWithETagResult(loc[c].uid, response))
           /\ loc' = [loc EXCEPT ![c].response = response]
    /\ UNCHANGED <<live, client, op, fn, timers, aborted, reqs>>

\* PutUpdate with the headers of a create
PutUpdateAsCreate(uid, event, icalData) ==
    Request("PUT", EventUrl(uid), <<"text/calendar">>, <<"*">>, Undefined, Undefined,
            icalData, FALSE)

\* the request of updateEvent: If-Match only if (event.caldavEtag)
PutUpdate(uid, event, icalData) ==
    Request("PUT", EventUrl(uid), <<"text/calendar">>, Undefined,
            IF Truthy(event.caldavEtag) THEN event.caldavEtag ELSE Undefined,
            Undefined, icalData, FALSE)

updateEvent(c) ==
    /\ Invoke(c, "updateEvent")
    /\ \E uid \in Uids : \E event \in UpdateInputs :
           LET icalData == generateICalData([event EXCEPT !.uid = uid])
           IN  IF icalData = Throws
               THEN /\ Settle(c, Threw(RangeError))
                    /\ loc' = [loc EXCEPT ![c] = [NoLocals EXCEPT !.uid = uid, !.event = event]]
                    /\ reqs' = reqs
               ELSE Fetch(c, PutUpdate(uid, event, icalData),
                          [NoLocals EXCEPT !.uid = uid, !.event = event])
    /\ UNCHANGED <<live, client, timers, aborted, log>>

\* updateEventResult with the two tags of the conflict in each other's place
updateEventResultSwapped(event, response) ==
    IF response.status = 412
    THEN Threw(CalDAVConflictError(
                   <<"Event was modified by another process. Refresh and try again.">>,
                   OrElse(response.etag, Undefined), event.caldavEtag))
    ELSE IF ~Ok(response) THEN Threw(Failed("Failed to update calendar event", response))
    ELSE Returned(OrElse(response.etag, Undefined))

\* updateEvent after the await
updateEventResult(event, response) ==
    IF response.status = 412
    THEN Threw(CalDAVConflictError(
                   <<"Event was modified by another process. Refresh and try again.">>,
                   event.caldavEtag, OrElse(response.etag, Undefined)))
    ELSE IF ~Ok(response) THEN Threw(Failed("Failed to update calendar event", response))
    ELSE Returned(OrElse(response.etag, Undefined))

updateEventResponse(c) ==
    /\ Awaiting(c, "updateEvent", "fetch")
    /\ \E response \in ResponsesTo(reqs[c][Len(reqs[c])]) :
           /\ Replied(c, response)
           /\ Settle(c, updateEventResult(loc[c].event, response))
           /\ loc' = [loc EXCEPT ![c].response = response]
    /\ UNCHANGED <<live, client, op, fn, timers, aborted, reqs>>

deleteEvent(c) ==
    /\ Invoke(c, "deleteEvent")
    /\ \E uid \in Uids :
           Fetch(c, Request("DELETE", EventUrl(uid), Undefined, Undefined, Undefined,
                            Undefined, Undefined, FALSE),
                 [NoLocals EXCEPT !.uid = uid])
    /\ UNCHANGED <<live, client, timers, aborted, log>>

\* deleteEventResult that takes a 404 for a failure
deleteEventResultNo404(response) ==
    IF ~Ok(response)
    THEN Threw(Failed("Failed to delete calendar event", response))
    ELSE Returned(Undefined)

\* deleteEvent after the await
deleteEventResult(response) ==
    IF ~Ok(response) /\ response.status # 404
    THEN Threw(Failed("Failed to delete calendar event", response))
    ELSE Returned(Undefined)

deleteEventResponse(c) ==
    /\ Awaiting(c, "deleteEvent", "fetch")
    /\ \E response \in ResponsesTo(reqs[c][Len(reqs[c])]) :
           /\ Replied(c, response)
           /\ Settle(c, deleteEventResult(response))
           /\ loc' = [loc EXCEPT ![c].response = response]
    /\ UNCHANGED <<live, client, op, fn, timers, aborted, reqs>>

\* the fetch of getEvent: no init argument, so a GET with no header and no signal
GetRequest(uid) ==
    Request("GET", EventUrl(uid), Undefined, Undefined, Undefined, Undefined, Undefined, FALSE)

getEvent(c) ==
    /\ Invoke(c, "getEvent")
    /\ \E uid \in Uids : Fetch(c, GetRequest(uid), [NoLocals EXCEPT !.uid = uid])
    /\ UNCHANGED <<live, client, timers, aborted, log>>

\* getEventStatus that takes a 404 for a failure
getEventStatusNo404(response) == IF ~Ok(response) THEN "throw" ELSE "text"

\* getEvent between the fetch and the read of the body: "null", "throw" or "text"
getEventStatus(response) ==
    IF response.status = 404 THEN "null" ELSE IF ~Ok(response) THEN "throw" ELSE "text"

\* getEvent after the read of the body
getEventResult(uid, response, icalData) ==
    LET event == parseICalData(icalData)
        withEtag == IF Truthy(response.etag)
                    THEN [event EXCEPT !.caldavEtag = response.etag] ELSE event
    IN  [withEtag EXCEPT !.caldavUrl = EventUrl(uid)]

getEventResponse(c) ==
    /\ Awaiting(c, "getEvent", "fetch")
    /\ \E response \in ResponsesTo(reqs[c][Len(reqs[c])]) :
           /\ Replied(c, response)
           /\ loc' = [loc EXCEPT ![c].response = response]
           /\ CASE getEventStatus(response) = "null" -> Settle(c, Returned(Null))
                [] getEventStatus(response) = "throw" ->
                       Settle(c, Threw(Failed("Failed to get calendar event", response)))
                [] OTHER -> pc' = [pc EXCEPT ![c] = "text"] /\ outcome' = outcome
    /\ UNCHANGED <<live, client, op, fn, timers, aborted, reqs>>

getEventText(c) ==
    /\ Awaiting(c, "getEvent", "text")
    /\ \E icalData \in IcalBodies :
           Settle(c, Returned(getEventResult(loc[c].uid, loc[c].response, icalData)))
    /\ UNCHANGED <<live, client, op, fn, loc, timers, aborted, reqs, log>>

\* These methods await outside of any try: a rejection of the awaited fetch, or of
\* the awaited response.text(), rejects the method's promise with the same value.
Uncaught ==
    {"createEvent", "createEventWithETag", "updateEvent", "deleteEvent", "getEvent",
     "getSyncToken", "getETag"}

AwaitRejects(c) ==
    /\ fn[c] \in Uncaught
    /\ pc[c] \in {"fetch", "text"}
    /\ \E error \in Failures :
           /\ Rejected(c)
           /\ Settle(c, Threw(error))
    /\ UNCHANGED <<live, client, op, fn, loc, timers, aborted, reqs>>

----------------------------------------------------------------------------
(* listEvents *)

Timer(owner, ms) == [owner |-> owner, ms |-> ms]

\* clearTimeout that disarms nothing
ClearTimeoutDisarmsNothing(c, f) == timers[c]

\* clearTimeout(timeoutId) of the timer the method f armed
ClearTimeout(c, f) == {t \in timers[c] : t.owner # f}

\* href.split('/').pop()?.replace('.ics', '')
UidOfHref(href) ==
    LET parts == SplitOn(href, "/")
    IN  ReplaceFirst(parts[Len(parts)], ".ics", <<>>)

\* the position of the first href from position i on that passes `if (uid)`,
\* or Len(hrefs) + 1 when the loop ends
RECURSIVE NextWithUid(_, _)
NextWithUid(hrefs, i) ==
    IF i > Len(hrefs) THEN i
    ELSE IF Truthy(UidOfHref(hrefs[i])) THEN i ELSE NextWithUid(hrefs, i + 1)

PropfindRequest ==
    Request("PROPFIND", CollectionUrl, <<"application/xml">>, Undefined, Undefined, <<"1">>,
            PropfindBody, TRUE)

\* listEvents from its first statement to `await fetch(...)`, with the timers in
\* `armed` still pending; also what `return this.listEvents()` of queryEvents runs
ListEventsStart(c, armed) ==
    /\ timers' = [timers EXCEPT ![c] = armed \cup {Timer("listEvents", client.listTimeout)}]
    /\ aborted' = [aborted EXCEPT ![c] = FALSE]
    /\ Fetch(c, PropfindRequest, NoLocals)

listEvents(c) ==
    /\ Invoke(c, "listEvents")
    /\ ListEventsStart(c, timers[c])
    /\ UNCHANGED <<live, client, log>>

\* listEventsResponse that leaves the timer armed when the response arrives
listEventsResponseKeepsTimer(c) ==
    /\ Awaiting(c, "listEvents", "fetch")
    /\ ~aborted[c]
    /\ \E response \in ResponsesTo(reqs[c][Len(reqs[c])]) :
           /\ Replied(c, response)
           /\ loc' = [loc EXCEPT ![c].response = response]
           /\ IF ~Ok(response)
              THEN Settle(c, Threw(Failed("Failed to list calendar events", response)))
              ELSE pc' = [pc EXCEPT ![c] = "text"] /\ outcome' = outcome
    /\ UNCHANGED <<live, client, op, fn, timers, aborted, reqs>>

listEventsResponse(c) ==
    /\ Awaiting(c, "listEvents", "fetch")
    /\ ~aborted[c]
    /\ \E response \in ResponsesTo(reqs[c][Len(reqs[c])]) :
           /\ Replied(c, response)
           /\ loc' = [loc EXCEPT ![c].response = response]
           /\ IF ~Ok(response)
              THEN Settle(c, Threw(Failed("Failed to list calendar events", response)))
              ELSE pc' = [pc EXCEPT ![c] = "text"] /\ outcome' = outcome
    /\ timers' = [timers EXCEPT ![c] = ClearTimeout(c, "listEvents")]
    /\ UNCHANGED <<live, client, op, fn, aborted, reqs>>

\* the for loop of listEvents from position i to its next await, or to the return
ListEventsLoop(c, hrefs, i, events) ==
    LET j == NextWithUid(hrefs, i)
    IN  IF j > Len(hrefs)
        THEN /\ Settle(c, Returned(events))
             /\ loc' = [loc EXCEPT ![c].hrefs = hrefs, ![c].next = j, ![c].events = events,
                                   ![c].item = NoItem]
             /\ reqs' = reqs
        ELSE FetchAt(c, "itemFetch", GetRequest(UidOfHref(hrefs[j])),
                     [loc[c] EXCEPT !.hrefs = hrefs, !.next = j + 1, !.events = events,
                                    !.item = [NoItem EXCEPT !.uid = UidOfHref(hrefs[j])]])

listEventsText(c) ==
    /\ Awaiting(c, "listEvents", "text")
    /\ \E xmlText \in PropfindBodies :
           ListEventsLoop(c, extractHrefsFromPropfind(xmlText), 1, <<>>)
    /\ UNCHANGED <<live, client, op, fn, timers, aborted, log>>

\* listEventsCaught that rethrows whatever it caught
listEventsCaughtRethrows(error) == Threw(error)

\* what the catch of listEvents does with the error it caught
listEventsCaught(error) == IF IsAbortError(error) THEN Returned(<<>>) ELSE Threw(error)

\* the catch of listEvents, entered by a rejection of the fetch or of response.text();
\* an aborted fetch rejects with the AbortError
listEventsCatch(c) ==
    /\ fn[c] = "listEvents"
    /\ pc[c] \in {"fetch", "text"}
    /\ \E error \in Failures :
           /\ aborted[c] => error = AbortError
           /\ Rejected(c)
           /\ loc' = [loc EXCEPT ![c].error = error]
           /\ Settle(c, listEventsCaught(error))
    /\ timers' = [timers EXCEPT ![c] = ClearTimeout(c, "listEvents")]
    /\ UNCHANGED <<live, client, op, fn, aborted, reqs>>

\* getEvent called from the loop: the response of the item's GET
listItemResponse(c) ==
    /\ Awaiting(c, "listEvents", "itemFetch")
    /\ \E response \in ResponsesTo(reqs[c][Len(reqs[c])]) :
           /\ Replied(c, response)
           /\ IF getEventStatus(response) = "text"
              THEN /\ pc' = [pc EXCEPT ![c] = "itemText"]
                   /\ loc' = [loc EXCEPT ![c].item.response = response]
                   /\ UNCHANGED <<reqs, outcome>>
              ELSE ListEventsLoop(c, loc[c].hrefs, loc[c].next, loc[c].events)
    /\ UNCHANGED <<live, client, op, fn, timers, aborted>>

\* getEvent called from the loop: the body of the item, and events.push(event)
listItemText(c) ==
    /\ Awaiting(c, "listEvents", "itemText")
    /\ \E icalData \in IcalBodies :
           ListEventsLoop(c, loc[c].hrefs, loc[c].next,
               Append(loc[c].events,
                      getEventResult(loc[c].item.uid, loc[c].item.response, icalData)))
    /\ UNCHANGED <<live, client, op, fn, timers, aborted, log>>

\* listItemRejects without the inner try: the rejection ends listEvents
listItemRejectsAborts(c) ==
    /\ fn[c] = "listEvents"
    /\ pc[c] \in {"itemFetch", "itemText"}
    /\ Rejected(c)
    /\ Settle(c, Threw(NetworkError))
    /\ UNCHANGED <<live, client, op, fn, loc, timers, aborted, reqs>>

\* listItemRejects that sends the GET of the item again
listItemRejectsRetries(c) ==
    /\ fn[c] = "listEvents"
    /\ pc[c] \in {"itemFetch", "itemText"}
    /\ Rejected(c)
    /\ FetchAt(c, "itemFetch", GetRequest(loc[c].item.uid), loc[c])
    /\ UNCHANGED <<live, client, op, fn, timers, aborted>>

\* getEvent called from the loop rejects: catch (_error) {} and the loop goes on
listItemRejects(c) ==
    /\ fn[c] = "listEvents"
    /\ pc[c] \in {"itemFetch", "itemText"}
    /\ Rejected(c)
    /\ ListEventsLoop(c, loc[c].hrefs, loc[c].next, loc[c].events)
    /\ UNCHANGED <<live, client, op, fn, timers, aborted>>

\* TimerFires with one AbortController shared by the calls in flight
TimerFiresAbortsAll(c) ==
    /\ \E t \in timers[c] : timers' = [timers EXCEPT ![c] = @ \ {t}]
    /\ aborted' = [d \in Calls |-> TRUE]
    /\ UNCHANGED <<live, client, pc, op, fn, loc, reqs, log, outcome>>

\* the callback of setTimeout runs: controller.abort()
TimerFires(c) ==
    /\ \E t \in timers[c] : timers' = [timers EXCEPT ![c] = @ \ {t}]
    /\ aborted' = [aborted EXCEPT ![c] = TRUE]
    /\ UNCHANGED <<live, client, pc, op, fn, loc, reqs, log, outcome>>

----------------------------------------------------------------------------
(* queryEvents *)

queryEvents(c) ==
    /\ Invoke(c, "queryEvents")
    /\ \E filters \in FilterInputs :
           LET reportXml == buildCalendarQueryXml(filters)
           IN  IF reportXml = Throws
               THEN \* the timer is armed, the builder throws, the catch clears the timer
                    /\ Settle(c, Threw(RangeError))
                    /\ loc' = [loc EXCEPT ![c] = [NoLocals EXCEPT !.error = RangeError]]
                    /\ UNCHANGED <<reqs, timers>>
               ELSE /\ timers' = [timers EXCEPT
                                     ![c] = @ \cup {Timer("queryEvents", client.queryTimeout)}]
                    /\ Fetch(c, Request("REPORT", CollectionUrl, <<"application/xml">>,
                                        Undefined, Undefined, <<"1">>, reportXml, TRUE),
                             NoLocals)
    /\ aborted' = [aborted EXCEPT ![c] = FALSE]
    /\ UNCHANGED <<live, client, log>>

\* queryEventsStatus that falls back on 403 as well
queryEventsStatusAlso403(response) ==
    IF ~Ok(response)
    THEN IF response.status \in {501, 405, 403} THEN "fallback" ELSE "throw"
    ELSE "text"

\* queryEventsStatus that falls back on 501 only
queryEventsStatusOnly501(response) ==
    IF ~Ok(response)
    THEN IF response.status = 501 THEN "fallback" ELSE "throw"
    ELSE "text"

\* queryEvents after the await of the REPORT: "fallback", "throw" or "text"
queryEventsStatus(response) ==
    IF ~Ok(response)
    THEN IF response.status = 501 \/ response.status = 405 THEN "fallback" ELSE "throw"
    ELSE "text"

queryEventsResponse(c) ==
    /\ Awaiting(c, "queryEvents", "fetch")
    /\ ~aborted[c]
    /\ \E response \in ResponsesTo(reqs[c][Len(reqs[c])]) :
           /\ Replied(c, response)
           /\ CASE queryEventsStatus(response) = "fallback" ->
                       \* return this.listEvents()
                       /\ fn' = [fn EXCEPT ![c] = "listEvents"]
                       /\ ListEventsStart(c, ClearTimeout(c, "queryEvents"))
                [] queryEventsStatus(response) = "throw" ->
                       /\ Settle(c, Threw(Failed("CalDAV REPORT failed", response)))
                       /\ loc' = [loc EXCEPT ![c].response = response]
                       /\ timers' = [timers EXCEPT ![c] = ClearTimeout(c, "queryEvents")]
                       /\ UNCHANGED <<fn, aborted, reqs>>
                [] OTHER ->
                       /\ pc' = [pc EXCEPT ![c] = "text"]
                       /\ loc' = [loc EXCEPT ![c].response = response]
                       /\ timers' = [timers EXCEPT ![c] = ClearTimeout(c, "queryEvents")]
                       /\ UNCHANGED <<fn, aborted, reqs, outcome>>
    /\ UNCHANGED <<live, client, op>>

queryEventsText(c) ==
    /\ Awaiting(c, "queryEvents", "text")
    /\ \E xmlText \in QueryBodies :
           Settle(c, Returned(parseCalendarQueryResponse(xmlText, client.baseUrl)))
    /\ UNCHANGED <<live, client, op, fn, loc, timers, aborted, reqs, log>>

\* what the catch of queryEvents does with the error it caught
queryEventsCaught(error) == IF IsAbortError(error) THEN Returned(<<>>) ELSE Threw(error)

\* the catch of queryEvents, entered by a rejection of the fetch or of response.text()
queryEventsCatch(c) ==
    /\ fn[c] = "queryEvents"
    /\ pc[c] \in {"fetch", "text"}
    /\ \E error \in Failures :
           /\ aborted[c] => error = AbortError
           /\ Rejected(c)
           /\ loc' = [loc EXCEPT ![c].error = error]
           /\ Settle(c, queryEventsCaught(error))
    /\ timers' = [timers EXCEPT ![c] = ClearTimeout(c, "queryEvents")]
    /\ UNCHANGED <<live, client, op, fn, aborted, reqs>>

----------------------------------------------------------------------------
(* syncCollection *)

syncCollection(c) ==
    /\ Invoke(c, "syncCollection")
    /\ \E syncToken \in SyncTokenInputs :
           Fetch(c, Request("REPORT", CollectionUrl, <<"application/xml">>, Undefined,
                            Undefined, <<"0">>, buildSyncCollectionXml(syncToken), TRUE),
                 NoLocals)
    /\ timers' = [timers EXCEPT ![c] = @ \cup {Timer("syncCollection", client.syncTimeout)}]
    /\ aborted' = [aborted EXCEPT ![c] = FALSE]
    /\ UNCHANGED <<live, client, log>>

\* syncCollectionNotOk that takes a 403 for a failure of the sync
syncCollectionNotOkNo403(response) ==
    IF response.status = 501 \/ response.status = 405
    THEN SkippedResult(<<"sync-collection not supported by server">>)
    ELSE FailureResult(<<"Sync failed", ": ">> \o StatusText(response))

\* what syncCollection returns for a response that is not ok
syncCollectionNotOk(response) ==
    IF response.status = 501 \/ response.status = 405 \/ response.status = 403
    THEN SkippedResult(<<"sync-collection not supported by server">>)
    ELSE FailureResult(<<"Sync failed", ": ">> \o StatusText(response))

syncCollectionResponse(c) ==
    /\ Awaiting(c, "syncCollection", "fetch")
    /\ ~aborted[c]
    /\ \E response \in ResponsesTo(reqs[c][Len(reqs[c])]) :
           /\ Replied(c, response)
           /\ loc' = [loc EXCEPT ![c].response = response]
           /\ IF ~Ok(response)
              THEN Settle(c, Returned(syncCollectionNotOk(response)))
              ELSE pc' = [pc EXCEPT ![c] = "text"] /\ outcome' = outcome
    /\ timers' = [timers EXCEPT ![c] = ClearTimeout(c, "syncCollection")]
    /\ UNCHANGED <<live, client, op, fn, aborted, reqs>>

syncCollectionText(c) ==
    /\ Awaiting(c, "syncCollection", "text")
    /\ \E xmlText \in SyncBodies :
           Settle(c, Returned(parseSyncCollectionResponse(xmlText)))
    /\ UNCHANGED <<live, client, op, fn, loc, timers, aborted, reqs, log>>

\* syncCollectionCaught that reports the message of every error it caught
syncCollectionCaughtMessage(error) ==
    FailureResult(IF error.isError THEN error.message ELSE error.str)

\* the result the catch of syncCollection returns for the error it caught
syncCollectionCaught(error) ==
    IF IsAbortError(error) THEN FailureResult(<<"Sync timeout">>)
    ELSE FailureResult(IF error.isError THEN error.message ELSE error.str)

\* the catch of syncCollection, entered by a rejection of the fetch or of response.text()
syncCollectionCatch(c) ==
    /\ fn[c] = "syncCollection"
    /\ pc[c] \in {"fetch", "text"}
    /\ \E error \in Failures :
           /\ aborted[c] => error = AbortError
           /\ Rejected(c)
           /\ loc' = [loc EXCEPT ![c].error = error]
           /\ Settle(c, Returned(syncCollectionCaught(error)))
    /\ timers' = [timers EXCEPT ![c] = ClearTimeout(c, "syncCollection")]
    /\ UNCHANGED <<live, client, op, fn, aborted, reqs>>

----------------------------------------------------------------------------
(* getSyncToken and getETag *)

\* a prop of the answer to getSyncToken: prop['sync-token']
TokenProp(syncToken) ==
    [getetag |-> Undefined, calendarData |-> Undefined, syncToken |-> syncToken]

\* the bodies the PROPFIND of getSyncToken is answered with
TokenBodies ==
    {Unparsable(<<>>),
     NotMultistatus,
     Multistatus(Undefined,
         <<Response(HrefCollection, <<Propstat(Status200, <<TokenProp(Undefined)>>)>>)>>),
     Multistatus(Undefined,
         <<Response(HrefCollection,
                    <<Propstat(Status404, <<TokenProp(<<>>)>>),
                      Propstat(Status200, <<TokenProp(T1), TokenProp(T2)>>)>>)>>)}

\* the props of every propstat of every response, in document order
RECURSIVE PropsOfPropstats(_)
PropsOfPropstats(propstats) ==
    IF propstats = <<>> THEN <<>>
    ELSE Head(propstats).prop \o PropsOfPropstats(Tail(propstats))

RECURSIVE PropsOfResponses(_)
PropsOfResponses(responses) ==
    IF responses = <<>> THEN <<>>
    ELSE PropsOfPropstats(Head(responses).propstat) \o PropsOfResponses(Tail(responses))

\* the three loops of getSyncToken: the first sync-token that is truthy, else null
RECURSIVE FirstSyncToken(_)
FirstSyncToken(props) ==
    IF props = <<>> THEN Null
    ELSE IF Truthy(Head(props).syncToken) THEN Head(props).syncToken
    ELSE FirstSyncToken(Tail(props))

\* getSyncTokenResult without its catch: what the parser throws comes out
getSyncTokenResultNoCatch(xml) ==
    IF xml.throws THEN Throws
    ELSE IF ~xml.multistatus THEN Null
    ELSE FirstSyncToken(PropsOfResponses(xml.response))

\* getSyncToken after the read of the body: the try block and its catch
getSyncTokenResult(xml) ==
    IF xml.throws THEN Null
    ELSE IF ~xml.multistatus THEN Null
    ELSE FirstSyncToken(PropsOfResponses(xml.response))

SyncTokenBody == <<"<D:propfind><D:prop><D:sync-token/></D:prop></D:propfind>">>

getSyncToken(c) ==
    /\ Invoke(c, "getSyncToken")
    /\ Fetch(c, Request("PROPFIND", CollectionUrl, <<"application/xml">>, Undefined,
                        Undefined, <<"0">>, SyncTokenBody, FALSE),
             NoLocals)
    /\ UNCHANGED <<live, client, timers, aborted, log>>

getSyncTokenResponse(c) ==
    /\ Awaiting(c, "getSyncToken", "fetch")
    /\ \E response \in ResponsesTo(reqs[c][Len(reqs[c])]) :
           /\ Replied(c, response)
           /\ loc' = [loc EXCEPT ![c].response = response]
           /\ IF ~Ok(response)
              THEN Settle(c, Returned(Null))
              ELSE pc' = [pc EXCEPT ![c] = "text"] /\ outcome' = outcome
    /\ UNCHANGED <<live, client, op, fn, timers, aborted, reqs>>

getSyncTokenText(c) ==
    /\ Awaiting(c, "getSyncToken", "text")
    /\ \E xmlText \in TokenBodies : Settle(c, Returned(getSyncTokenResult(xmlText)))
    /\ UNCHANGED <<live, client, op, fn, loc, timers, aborted, reqs, log>>

getETag(c) ==
    /\ Invoke(c, "getETag")
    /\ \E uid \in Uids :
           Fetch(c, Request("HEAD", EventUrl(uid), Undefined, Undefined, Undefined,
                            Undefined, Undefined, FALSE),
                 [NoLocals EXCEPT !.uid = uid])
    /\ UNCHANGED <<live, client, timers, aborted, log>>

\* getETagResult without the check of response.ok
getETagResultOfAnyStatus(response) == response.etag

\* getETag after the await
getETagResult(response) == IF ~Ok(response) THEN Null ELSE response.etag

getETagResponse(c) ==
    /\ Awaiting(c, "getETag", "fetch")
    /\ \E response \in ResponsesTo(reqs[c][Len(reqs[c])]) :
           /\ Replied(c, response)
           /\ loc' = [loc EXCEPT ![c].response = response]
           /\ Settle(c, Returned(getETagResult(response)))
    /\ UNCHANGED <<live, client, op, fn, timers, aborted, reqs>>

----------------------------------------------------------------------------
(* The caller and the specification *)

\* the caller has taken the result; the slot is free for the next call
Finish(c) ==
    /\ pc[c] = "done"
    /\ pc' = [pc EXCEPT ![c] = "idle"]
    /\ op' = [op EXCEPT ![c] = "none"]
    /\ fn' = [fn EXCEPT ![c] = "none"]
    /\ loc' = [loc EXCEPT ![c] = NoLocals]
    /\ reqs' = [reqs EXCEPT ![c] = <<>>]
    /\ log' = [log EXCEPT ![c] = <<>>]
    /\ outcome' = [outcome EXCEPT ![c] = Pending]
    /\ aborted' = [aborted EXCEPT ![c] = FALSE]
    /\ UNCHANGED <<live, client, timers>>

Next ==
    /\ UNCHANGED <<storeVars, helperVars>>
    /\ \E c \in Calls :
        \/ createEvent(c)
        \/ createEventWithETag(c)
        \/ updateEvent(c)
        \/ deleteEvent(c)
        \/ getEvent(c)
        \/ createEventResponse(c)
        \/ createEventWithETagResponse(c)
        \/ updateEventResponse(c)
        \/ deleteEventResponse(c)
        \/ getEventResponse(c)
        \/ getEventText(c)
        \/ AwaitRejects(c)
        \/ listEvents(c)
        \/ listEventsResponse(c)
        \/ listEventsText(c)
        \/ listEventsCatch(c)
        \/ listItemResponse(c)
        \/ listItemText(c)
        \/ listItemRejects(c)
        \/ TimerFires(c)
        \/ queryEvents(c)
        \/ queryEventsResponse(c)
        \/ queryEventsText(c)
        \/ queryEventsCatch(c)
        \/ syncCollection(c)
        \/ syncCollectionResponse(c)
        \/ syncCollectionText(c)
        \/ syncCollectionCatch(c)
        \/ getSyncToken(c)
        \/ getSyncTokenResponse(c)
        \/ getSyncTokenText(c)
        \/ getETag(c)
        \/ getETagResponse(c)
        \/ Finish(c)

Spec == Init /\ [][Next]_vars

\* The configuration store and the construction of clients: the module of the
\* client is loaded, which constructs calendarClient = new CalendarClient(), and
\* the program then calls configure, getConfig, resetConfig and the constructor
\* in any order.
InitConfig ==
    /\ live = {}
    /\ client = Constructor(Undefined, EmptyObject)
    /\ NoCallMade
    /\ StoreLoaded
    /\ NoHelperCalled

NextConfig ==
    \/ configure
    \/ getConfig
    \/ resetConfig
    \/ MutateHeld
    \/ construct

SpecConfig == InitConfig /\ [][NextConfig]_vars

----------------------------------------------------------------------------
(* The helper functions, called on their own *)

\* the longest uid of an event handed to generateICalData
MaxUid == 3

\* events with only uid set; the uids are made of a letter and of the characters
\* that the codec gives a meaning to
UidOnlyEvents ==
    {[EmptyEvent EXCEPT !.uid = uid] :
        uid \in SeqsUpTo({"u", ":", ",", "\r", "\n"}, MaxUid) \ {<<>>}}

\* parseICalData(generateICalData(event))
RoundTripEvent ==
    /\ fun = "generateICalData" /\ ~ret.done
    /\ ret' = Value(parseICalData(generateICalData(arg)))
    /\ UNCHANGED <<fun, arg, client, callVars, storeVars>>

\* the longest text handed to escapeText
MaxText == 3

\* texts of backslashes, semicolons, commas, line feeds, the letter n and
\* another letter
Texts == SeqsUpTo({"\\", ";", ",", "\n", "n", "a"}, MaxText)

\* unescapeText(escapeText(text))
RoundTripText ==
    /\ fun = "escapeText" /\ ~ret.done
    /\ ret' = Value(unescapeText(escapeText(arg)))
    /\ UNCHANGED <<fun, arg, client, callVars, storeVars>>

\* date.toISOString() of the instant with these fields
IsoString(year, month, day, hour, minute, second, millis) ==
    year \o <<"-">> \o month \o <<"-">> \o day \o <<"T">> \o hour \o <<":">> \o minute
         \o <<":">> \o second \o <<".">> \o millis \o <<"Z">>

\* UTC instants of years 0001 to 9999: each is the string its toISOString() yields
Dates ==
    {IsoString(year, month, day, hour, minute, second, millis) :
        year \in {<<"0", "0", "0", "1">>, <<"2", "0", "2", "5">>, <<"9", "9", "9", "9">>},
        month \in {<<"0", "1">>, <<"1", "2">>},
        day \in {<<"0", "1">>, <<"3", "1">>},
        hour \in {<<"0", "0">>, <<"2", "3">>},
        minute \in {<<"0", "0">>, <<"5", "9">>},
        second \in {<<"0", "0">>, <<"5", "9">>},
        millis \in {<<"0", "0", "0">>, <<"6", "7", "8">>, <<"9", "9", "9">>}}

\* parseDateTime(formatDateTime(date)), and the string in between
RoundTripDate ==
    /\ fun = "formatDateTime" /\ ~ret.done
    /\ ret' = Value([formatted |-> formatDateTime(arg),
                     parsed |-> parseDateTime(formatDateTime(arg))])
    /\ UNCHANGED <<fun, arg, client, callVars, storeVars>>

\* the most responses of a body handed to parseSyncCollectionResponse
MaxResponses == 2

\* the responses of such a body: the href is that of an event, that of the
\* collection, or a number; the propstats tell 200, 404, both, or a number
SyncResponses ==
    {Response(href, propstat) :
        href \in {HrefU1, HrefU2, HrefCollection, NonString},
        propstat \in {<<>>,
                      <<Propstat(Status200, <<Prop(E1, Undefined)>>)>>,
                      <<Propstat(Status404, <<>>)>>,
                      <<Propstat(Status404, <<>>), Propstat(Status200, <<Prop(E2, Undefined)>>)>>,
                      <<Propstat(Status200, <<Prop(E1, Undefined)>>),
                        Propstat(NonString, <<>>)>>}}

\* the bodies handed to parseSyncCollectionResponse
SyncInputs ==
    {Unparsable(<<>>), NotMultistatus}
    \cup {Multistatus(syncToken, response) :
              syncToken \in {Undefined, T1},
              response \in SeqsUpTo(SyncResponses, MaxResponses)}

ParseSyncBody ==
    /\ fun = "parseSyncCollectionResponse" /\ ~ret.done
    /\ ret' = Value(parseSyncCollectionResponse(arg))
    /\ UNCHANGED <<fun, arg, client, callVars, storeVars>>

\* the responses of a body handed to parseCalendarQueryResponse: an href or
\* none; propstats that tell 200, 404 or a number; props with calendar-data or
\* without, with a getetag or without
QueryResponses ==
    {Response(HrefU1, <<Propstat(Status200, <<Prop(E1, IcalU1)>>)>>),
     Response(HrefU2, <<Propstat(Status200, <<Prop(Undefined, IcalU2), Prop(E2, IcalU1)>>)>>),
     Response(Undefined, <<Propstat(Status200, <<Prop(E1, IcalU2)>>)>>),
     Response(HrefU1, <<Propstat(Status404, <<Prop(E1, IcalU1)>>),
                        Propstat(Status200, <<Prop(E2, Undefined), Prop(E2, IcalU2)>>)>>),
     Response(HrefU2, <<Propstat(Status404, <<Prop(E2, IcalU2)>>)>>),
     Response(HrefU2, <<Propstat(Status200, <<Prop(E1, IcalU2)>>),
                        Propstat(NonString, <<Prop(E2, IcalU1)>>)>>),
     Response(HrefU1, <<>>)}

\* the bodies handed to parseCalendarQueryResponse
QueryInputs ==
    {Unparsable(<<>>), NotMultistatus}
    \cup {Multistatus(Undefined, response) :
              response \in SeqsUpTo(QueryResponses, MaxResponses)}

ParseQueryBody ==
    /\ fun = "parseCalendarQueryResponse" /\ ~ret.done
    /\ ret' = Value(parseCalendarQueryResponse(arg, client.baseUrl))
    /\ UNCHANGED <<fun, arg, client, callVars, storeVars>>

\* the bodies handed to extractHrefsFromPropfind: a body that does not parse
\* and has href elements, a body with no multistatus root, and multistatus
\* bodies whose responses have an href or none
PropfindInputs ==
    {Unparsable(texts) : texts \in SeqsUpTo({HrefU1, HrefCollection, ICS}, MaxHrefs)}
    \cup {NotMultistatus}
    \cup {Multistatus(Undefined, [i \in 1..Len(hs) |-> Response(hs[i], <<>>)]) :
              hs \in SeqsUpTo({HrefU1, HrefU2, HrefCollection, NonString, Undefined},
                              MaxHrefs)}

ExtractHrefs ==
    /\ fun = "extractHrefsFromPropfind" /\ ~ret.done
    /\ ret' = Value(extractHrefsFromPropfind(arg))
    /\ UNCHANGED <<fun, arg, client, callVars, storeVars>>

\* the most lines of a text handed to parseICalData
MaxLines == 3

\* lines of an iCalendar text: URL lines with no value, with an empty value,
\* with a value that holds a colon, with another value, and a UID line
UrlLines ==
    {<<"URL">>, <<"URL", ":">>, <<"URL", ":", "https", ":", "//a">>,
     <<"URL", ":", "//b">>, <<"UID", ":", "u1">>}

\* lines.join('\r\n') read backwards: the text whose lines these are
RECURSIVE TextOfLines(_)
TextOfLines(lines) ==
    IF lines = <<>> THEN <<>>
    ELSE IF Len(lines) = 1 THEN Head(lines)
    ELSE Head(lines) \o CRLF \o TextOfLines(Tail(lines))

IcalTexts == {TextOfLines(lines) : lines \in SeqsUpTo(UrlLines, MaxLines)}

\* parseICalData(icalData)
ParseIcalText ==
    /\ fun = "parseICalData" /\ ~ret.done
    /\ ret' = Value(parseICalData(arg))
    /\ UNCHANGED <<fun, arg, client, callVars, storeVars>>

\* the caller of a helper function and its argument
HelperCalls ==
    \/ fun = "generateICalData" /\ arg \in UidOnlyEvents
    \/ fun = "escapeText" /\ arg \in Texts
    \/ fun = "formatDateTime" /\ arg \in Dates
    \/ fun = "parseSyncCollectionResponse" /\ arg \in SyncInputs
    \/ fun = "extractHrefsFromPropfind" /\ arg \in PropfindInputs
    \/ fun = "parseCalendarQueryResponse" /\ arg \in QueryInputs
    \/ fun = "parseICalData" /\ arg \in IcalTexts

InitHelpers ==
    /\ live = {}
    /\ client = Constructor(Undefined, EmptyObject)
    /\ NoCallMade
    /\ StoreLoaded
    /\ HelperCalls
    /\ ret = NotCalled

NextHelpers ==
    \/ RoundTripEvent
    \/ RoundTripText
    \/ RoundTripDate
    \/ ParseSyncBody
    \/ ParseQueryBody
    \/ ExtractHrefs
    \/ ParseIcalText

SpecHelpers == InitHelpers /\ [][NextHelpers]_vars

----------------------------------------------------------------------------
(* Two calls in flight on one client *)

\* The collections that listEvents meets while two calls are in flight: the
\* PROPFIND lists no event, or the one event "u1".
ConcurrentHrefs == {<<>>, <<HrefU1>>}

ListsConcurrentHrefs == \A c \in Calls : loc[c].hrefs \in ConcurrentHrefs

InitConcurrent ==
    /\ live = Calls
    /\ client = Constructor(Undefined, TestConfig)
    /\ NoCallMade
    /\ StoreLoaded
    /\ NoHelperCalled

\* the steps of listEvents and of syncCollection, of either call in any order
NextConcurrent ==
    /\ UNCHANGED <<storeVars, helperVars>>
    /\ \E c \in Calls :
        \/ listEvents(c)
        \/ listEventsResponse(c)
        \/ listEventsText(c)
        \/ listEventsCatch(c)
        \/ listItemResponse(c)
        \/ listItemText(c)
        \/ listItemRejects(c)
        \/ syncCollection(c)
        \/ syncCollectionResponse(c)
        \/ syncCollectionText(c)
        \/ syncCollectionCatch(c)
        \/ TimerFires(c)
        \/ Finish(c)
    /\ ListsConcurrentHrefs'

SpecConcurrent == InitConcurrent /\ [][NextConcurrent]_vars

----------------------------------------------------------------------------
(* The bodies of the answers, kept beside the call that read them *)

\* One call at a time runs listEvents, queryEvents, syncCollection or
\* getSyncToken; the text that `await response.text()` resolved with is kept in
\* arg (fun = "response.text") until the caller takes the result.
InitBodies ==
    /\ live = {"c1"}
    /\ client = Constructor(Undefined, TestConfig)
    /\ NoCallMade
    /\ StoreLoaded
    /\ NoHelperCalled

NextBodies ==
    /\ UNCHANGED <<storeVars, ret>>
    /\ \E c \in Calls :
        \/ /\ \/ listEvents(c)
              \/ listEventsResponse(c)
              \/ listEventsCatch(c)
              \/ listItemResponse(c)
              \/ listItemText(c)
              \/ listItemRejects(c)
              \/ TimerFires(c)
              \/ queryEvents(c)
              \/ queryEventsResponse(c)
              \/ queryEventsCatch(c)
              \/ syncCollection(c)
              \/ syncCollectionResponse(c)
              \/ syncCollectionCatch(c)
              \/ getSyncToken(c)
              \/ getSyncTokenResponse(c)
              \/ AwaitRejects(c)
           /\ UNCHANGED <<fun, arg>>
        \/ /\ \/ /\ listEventsText(c)
                 /\ \E xmlText \in PropfindBodies :
                        /\ loc'[c].hrefs = extractHrefsFromPropfind(xmlText)
                        /\ arg' = xmlText
              \/ /\ queryEventsText(c)
                 /\ \E xmlText \in QueryBodies :
                        /\ outcome'[c] =
                               Returned(parseCalendarQueryResponse(xmlText, client.baseUrl))
                        /\ arg' = xmlText
              \/ /\ syncCollectionText(c)
                 /\ \E xmlText \in SyncBodies :
                        /\ outcome'[c] = Returned(parseSyncCollectionResponse(xmlText))
                        /\ arg' = xmlText
              \/ /\ getSyncTokenText(c)
                 /\ \E xmlText \in TokenBodies :
                        /\ outcome'[c] = Returned(getSyncTokenResult(xmlText))
                        /\ arg' = xmlText
           /\ fun' = "response.text"
        \/ /\ Finish(c)
           /\ fun' = "none"
           /\ arg' = Undefined
    /\ ListsConcurrentHrefs'

SpecBodies == InitBodies /\ [][NextBodies]_vars

-----------------------------------------------------------------------------
(* Properties of the operations *)

\* the i-th request of the call was answered with a response
Answered(c, i) == Len(log[c]) >= i /\ log[c][i].status # 0

\* the i-th request of the call was answered, and nothing failed in reading it
Succeeded(c, i) == Answered(c, i) /\ Ok(log[c][i]) /\ ~log[c][i].failed

\* the call was invoked as one of the two create operations
IsCreate(c) == op[c] \in {"createEvent", "createEventWithETag"}

\* `${baseUrl}${calendarPath}${uid}.ics`, spelled out
UrlOfUid(uid) == client.baseUrl \o client.calendarPath \o uid \o <<".ics">>

\* C1: whenever the PUT of updateEvent is answered with status 412, updateEvent
\* rejects with a CalDAVConflictError whose localEtag is the caldavEtag of the
\* event passed in, which is also the If-Match value of the request, and whose
\* remoteEtag is the ETag header of the response (undefined when the response
\* has none); no etag is returned and the PUT stays the only request of the call.
UpdateConflictCarriesBothEtags ==
    \A c \in Calls :
        (op[c] = "updateEvent" /\ Answered(c, 1) /\ log[c][1].status = 412) =>
            /\ pc[c] = "done"
            /\ outcome[c].kind = "threw"
            /\ outcome[c].value = Undefined
            /\ outcome[c].error.name = <<"CalDAVConflictError">>
            /\ outcome[c].error.localEtag = loc[c].event.caldavEtag
            /\ outcome[c].error.localEtag = reqs[c][1].headers.ifMatch
            /\ outcome[c].error.remoteEtag =
                   (IF loc[c].response.etag = Null THEN Undefined ELSE loc[c].response.etag)
            /\ Len(reqs[c]) = 1

\* an update of an event held at "e1" met the server's "e2"
UpdateConflictReached ==
    \E c \in Calls :
        /\ op[c] = "updateEvent" /\ pc[c] = "done"
        /\ Answered(c, 1) /\ log[c][1].status = 412
        /\ loc[c].event.caldavEtag = E1
        /\ reqs[c][1].headers.ifMatch = E1
        /\ loc[c].response.etag = E2
        /\ outcome[c].error.localEtag = E1
        /\ outcome[c].error.remoteEtag = E2

\* C2: a create whose PUT is answered with 412 rejects with a message containing
\* "already exists"; answered with any other status that is not ok it rejects
\* with a "Failed to create calendar event" error; it returns only on an ok
\* status, and the uid it returns is the uid of the request URL and of the UID
\* line of the request body: the uid supplied, or the generated one when none was.
CreateRejectsOrReturnsTheUidUsed ==
    \A c \in Calls :
        (IsCreate(c) /\ pc[c] = "done") =>
            LET uid == IF Truthy(loc[c].event.uid) THEN loc[c].event.uid ELSE GeneratedUid
                returnedUid == IF op[c] = "createEvent" THEN outcome[c].value
                               ELSE outcome[c].value.uid
            IN  /\ (Answered(c, 1) /\ log[c][1].status = 412) =>
                       /\ outcome[c].kind = "threw"
                       /\ Includes(outcome[c].error.message, "already exists")
                /\ (Answered(c, 1) /\ log[c][1].status # 412 /\ ~Ok(log[c][1])) =>
                       /\ outcome[c].kind = "threw"
                       /\ Includes(outcome[c].error.message, "Failed to create calendar event")
                /\ outcome[c].kind = "returned" =>
                       /\ Succeeded(c, 1)
                       /\ returnedUid = uid
                       /\ Len(reqs[c]) = 1
                       /\ reqs[c][1].url = UrlOfUid(uid)
                       /\ \E i \in 1..Len(SplitLines(reqs[c][1].body)) :
                              SplitLines(reqs[c][1].body)[i] = <<"UID", ":">> \o uid

\* a create of the uid "u1" was answered with 412
CreateConflictReached ==
    \E c \in Calls :
        /\ IsCreate(c) /\ pc[c] = "done"
        /\ loc[c].event.uid = U1
        /\ Answered(c, 1) /\ log[c][1].status = 412
        /\ outcome[c].kind = "threw"
        /\ Includes(outcome[c].error.message, "already exists")

\* what a run of listEvents yields, told from its locals: what its catch made of
\* the error it caught, else the error for a PROPFIND that is not ok, else the
\* events it collected
ListEventsYields(c) ==
    IF loc[c].error # NoError
    THEN IF loc[c].error.isError /\ loc[c].error.name = <<"AbortError">>
         THEN Returned(<<>>) ELSE Threw(loc[c].error)
    ELSE IF ~Ok(loc[c].response)
    THEN Threw(Error(<<"Failed to list calendar events", ": ">> \o StatusText(loc[c].response)))
    ELSE Returned(loc[c].events)

\* C3: when the REPORT of queryEvents is answered with 501 or 405, the next
\* request of the call is the PROPFIND of listEvents and the call settles with
\* exactly what that run of listEvents yields (as a call of listEvents itself
\* does), never with a REPORT error; answered with any other status that is not
\* ok, it rejects with a "CalDAV REPORT failed" error and issues no other request.
QueryFallsBackToList ==
    \A c \in Calls :
        /\ (fn[c] = "listEvents" /\ pc[c] = "done") => outcome[c] = ListEventsYields(c)
        /\ (op[c] = "queryEvents" /\ Answered(c, 1) /\ ~Ok(log[c][1])) =>
               IF log[c][1].status \in {501, 405}
               THEN /\ Len(reqs[c]) >= 2
                    /\ reqs[c][2].method = "PROPFIND"
                    /\ reqs[c][2].url = client.baseUrl \o client.calendarPath
                    /\ fn[c] = "listEvents"
                    /\ pc[c] = "done" =>
                           /\ outcome[c] = ListEventsYields(c)
                           /\ outcome[c].kind = "threw" =>
                                  ~Includes(outcome[c].error.message, "CalDAV REPORT failed")
               ELSE /\ pc[c] = "done"
                    /\ outcome[c].kind = "threw"
                    /\ Includes(outcome[c].error.message, "CalDAV REPORT failed")
                    /\ Len(reqs[c]) = 1

\* a query answered with 501 returned an event that the fallback listed
QueryFallbackReached ==
    \E c \in Calls :
        /\ op[c] = "queryEvents" /\ pc[c] = "done"
        /\ Answered(c, 1) /\ log[c][1].status = 501
        /\ reqs[c][2].method = "PROPFIND"
        /\ Len(reqs[c]) >= 3
        /\ outcome[c].kind = "returned"
        /\ Len(outcome[c].value) >= 1

\* C4: syncCollection never rejects: whatever the status, the body or the
\* failure of the transport, it resolves with a result object; when the fetch or
\* the read of the body fails with an Error named AbortError the result is
\* {success: false, error: 'Sync timeout'}, and for any other failure it is
\* {success: false, error: m}, m being the message of the failure (its string
\* form when the failure is not an Error).
SyncNeverRejects ==
    \A c \in Calls :
        (op[c] = "syncCollection" /\ pc[c] = "done") =>
            /\ outcome[c].kind = "returned"
            /\ "success" \in outcome[c].value.keys
            /\ aborted[c] => outcome[c].value.error = <<"Sync timeout">>
            /\ (log[c] # <<>> /\ log[c][Len(log[c])].failed) =>
                   /\ outcome[c].value.keys = {"success", "error"}
                   /\ outcome[c].value.success = FALSE
                   /\ outcome[c].value.error =
                          (IF loc[c].error.isError /\ loc[c].error.name = <<"AbortError">>
                           THEN <<"Sync timeout">>
                           ELSE IF loc[c].error.isError THEN loc[c].error.message
                           ELSE loc[c].error.str)

\* the deadline of a sync fired and the call resolved with 'Sync timeout'
SyncTimeoutReached ==
    \E c \in Calls :
        /\ op[c] = "syncCollection" /\ pc[c] = "done"
        /\ aborted[c]
        /\ loc[c].error.name = <<"AbortError">>
        /\ outcome[c].kind = "returned"
        /\ outcome[c].value.success = FALSE
        /\ outcome[c].value.error = <<"Sync timeout">>

\* C5: when the deadline of listEvents or of queryEvents fires while its request
\* is in flight, the request fails with an AbortError and the call resolves with
\* the empty sequence; a failure of the fetch or of the read of its body with an
\* Error named AbortError resolves so too, and any other failure is the
\* rejection of the call.
DeadlineYieldsEmpty ==
    \A c \in Calls :
        (op[c] \in {"listEvents", "queryEvents"} /\ pc[c] = "done") =>
            /\ aborted[c] =>
                   /\ loc[c].error.name = <<"AbortError">>
                   /\ outcome[c] = Returned(<<>>)
            /\ (loc[c].error # NoError /\ log[c] # <<>> /\ log[c][Len(log[c])].failed) =>
                   IF loc[c].error.isError /\ loc[c].error.name = <<"AbortError">>
                   THEN outcome[c] = Returned(<<>>)
                   ELSE outcome[c] = Threw(loc[c].error)

\* the deadline of a listEvents fired and the call resolved with no event
ListDeadlineReached ==
    \E c \in Calls :
        /\ op[c] = "listEvents" /\ pc[c] = "done"
        /\ aborted[c]
        /\ Len(log[c]) = 1 /\ log[c][1].failed
        /\ outcome[c] = Returned(<<>>)

\* the position of the PROPFIND among the requests of a call that runs listEvents
Propfind(c) == IF op[c] = "queryEvents" THEN 2 ELSE 1

\* the URLs of the items of hrefs that have a uid, in the order of hrefs
RECURSIVE ItemUrls(_)
ItemUrls(hrefs) ==
    IF hrefs = <<>> THEN <<>>
    ELSE (IF Truthy(UidOfHref(Head(hrefs)))
          THEN <<UrlOfUid(UidOfHref(Head(hrefs)))>> ELSE <<>>)
         \o ItemUrls(Tail(hrefs))

\* the URLs of the requests whose entry of settled tells a success, in order
RECURSIVE UrlsKept(_, _)
UrlsKept(gets, settled) ==
    IF settled = <<>> THEN <<>>
    ELSE (IF Ok(Head(settled)) /\ ~Head(settled).failed THEN <<Head(gets).url>> ELSE <<>>)
         \o UrlsKept(Tail(gets), Tail(settled))

\* C6: after a PROPFIND that succeeded, listEvents issues one GET per href that
\* has a uid, in the order of the hrefs, and never a GET before the one before
\* it has settled; the events it collects are those of the GETs that succeeded,
\* in that order, so a GET that fails or is answered with 404 only leaves its
\* item out: the loop reaches the last href and listEvents returns the events.
ListFetchesItemsInOrder ==
    \A c \in Calls :
        (fn[c] = "listEvents" /\ Succeeded(c, Propfind(c))) =>
            LET p == Propfind(c)
                gets == SubSeq(reqs[c], p + 1, Len(reqs[c]))
                settled == SubSeq(log[c], p + 1, Len(log[c]))
                pushed == IF pc[c] = "itemText"
                          THEN SubSeq(settled, 1, Len(settled) - 1) ELSE settled
                due == ItemUrls(SubSeq(loc[c].hrefs, 1, loc[c].next - 1))
            IN  /\ Len(gets) - Len(settled) \in {0, 1}
                /\ Len(gets) - Len(settled) = 1 <=> pc[c] = "itemFetch"
                /\ Len(gets) = Len(due)
                /\ \A i \in 1..Len(gets) : gets[i].method = "GET" /\ gets[i].url = due[i]
                /\ [i \in 1..Len(loc[c].events) |-> loc[c].events[i].caldavUrl]
                       = UrlsKept(gets, pushed)
                /\ pc[c] = "done" =>
                       /\ loc[c].next = Len(loc[c].hrefs) + 1
                       /\ outcome[c] = Returned(loc[c].events)

\* of two items listed, the GET of the first failed and the second was returned
ListSkippedAnItemReached ==
    \E c \in Calls :
        /\ op[c] = "listEvents" /\ pc[c] = "done"
        /\ loc[c].hrefs = <<HrefU1, HrefU2>>
        /\ Len(log[c]) = 3
        /\ ~Succeeded(c, 2) /\ Succeeded(c, 3)
        /\ outcome[c].kind = "returned"
        /\ Len(outcome[c].value) = 1
        /\ outcome[c].value[1].caldavUrl = UrlOfUid(U2)

\* C7: the result of syncCollection has skipped = true exactly when the REPORT
\* was answered with 501, 405 or 403, and then success = false; answered with
\* any other status that is not ok the result has success = false, a
\* "Sync failed" error and no skipped; a successful result has no skipped.
SkippedOnlyWhenUnsupported ==
    \A c \in Calls :
        (op[c] = "syncCollection" /\ pc[c] = "done" /\ outcome[c].kind = "returned") =>
            LET result == outcome[c].value
                unsupported == Answered(c, 1) /\ log[c][1].status \in {501, 405, 403}
            IN  /\ ("skipped" \in result.keys /\ result.skipped) <=> unsupported
                /\ unsupported => ~result.success
                /\ (Answered(c, 1) /\ ~Ok(log[c][1]) /\ ~unsupported) =>
                       /\ ~result.success
                       /\ Includes(result.error, "Sync failed")
                       /\ "skipped" \notin result.keys
                /\ result.success => "skipped" \notin result.keys

\* a sync answered with 403 was skipped
SyncSkippedReached ==
    \E c \in Calls :
        /\ op[c] = "syncCollection" /\ pc[c] = "done"
        /\ Answered(c, 1) /\ log[c][1].status = 403
        /\ outcome[c].kind = "returned"
        /\ outcome[c].value.skipped
        /\ ~outcome[c].value.success

\* C8: every PUT of createEvent and of createEventWithETag carries
\* If-None-Match: * and no If-Match; a PUT of updateEvent carries If-Match if and
\* only if the event passed in has a caldavEtag, with that value, and no
\* If-None-Match.
PutPreconditions ==
    \A c \in Calls : \A i \in 1..Len(reqs[c]) :
        reqs[c][i].method = "PUT" =>
            IF IsCreate(c)
            THEN /\ reqs[c][i].headers.ifNoneMatch = <<"*">>
                 /\ reqs[c][i].headers.ifMatch = Undefined
            ELSE /\ op[c] = "updateEvent"
                 /\ reqs[c][i].headers.ifNoneMatch = Undefined
                 /\ reqs[c][i].headers.ifMatch # Undefined
                        <=> loc[c].event.caldavEtag # Undefined
                 /\ reqs[c][i].headers.ifMatch # Undefined =>
                        reqs[c][i].headers.ifMatch = loc[c].event.caldavEtag

\* an update of an event held at "e1" sent If-Match: e1
UpdateSentIfMatchReached ==
    \E c \in Calls :
        /\ op[c] = "updateEvent" /\ pc[c] = "fetch"
        /\ loc[c].event.caldavEtag = E1
        /\ reqs[c][1].method = "PUT"
        /\ reqs[c][1].headers.ifMatch = E1
        /\ reqs[c][1].headers.ifNoneMatch = Undefined

\* C9: getEvent returns null when the response has status 404, rejects with a
\* "Failed to get calendar event" error on any other status that is not ok, and
\* otherwise returns the event decoded from the body, with caldavUrl the URL
\* requested, {baseUrl}{calendarPath}{uid}.ics, and with caldavEtag set if and
\* only if the response has an ETag header, and then to its value.
GetEventOutcome ==
    \A c \in Calls :
        (op[c] = "getEvent" /\ pc[c] = "done" /\ Answered(c, 1) /\ ~log[c][1].failed) =>
            IF log[c][1].status = 404 THEN outcome[c] = Returned(Null)
            ELSE IF ~Ok(log[c][1])
            THEN /\ outcome[c].kind = "threw"
                 /\ Includes(outcome[c].error.message, "Failed to get calendar event")
            ELSE /\ outcome[c].kind = "returned"
                 /\ reqs[c][1].url = UrlOfUid(loc[c].uid)
                 /\ outcome[c].value.caldavUrl = UrlOfUid(loc[c].uid)
                 /\ outcome[c].value.caldavEtag # Undefined <=> loc[c].response.etag # Null
                 /\ loc[c].response.etag # Null =>
                        outcome[c].value.caldavEtag = loc[c].response.etag
                 /\ \E icalData \in IcalBodies :
                        [outcome[c].value EXCEPT !.caldavUrl = Undefined,
                                                 !.caldavEtag = Undefined]
                            = parseICalData(icalData)

\* a GET of "u1" answered with the tag "e2" returned an event
GetEventWithEtagReached ==
    \E c \in Calls :
        /\ op[c] = "getEvent" /\ pc[c] = "done"
        /\ loc[c].uid = U1
        /\ Succeeded(c, 1)
        /\ loc[c].response.etag = E2
        /\ outcome[c].kind = "returned"
        /\ outcome[c].value.caldavEtag = E2
        /\ outcome[c].value.caldavUrl = UrlOfUid(U1)

\* C10: deleteEvent resolves when the response is ok or has status 404, and
\* rejects with a "Failed to delete calendar event" error for every other status.
DeleteTolerates404 ==
    \A c \in Calls :
        (op[c] = "deleteEvent" /\ pc[c] = "done" /\ Answered(c, 1)) =>
            IF Ok(log[c][1]) \/ log[c][1].status = 404
            THEN outcome[c] = Returned(Undefined)
            ELSE /\ outcome[c].kind = "threw"
                 /\ Includes(outcome[c].error.message, "Failed to delete calendar event")

\* a DELETE answered with 404 resolved
DeleteOf404Reached ==
    \E c \in Calls :
        /\ op[c] = "deleteEvent" /\ pc[c] = "done"
        /\ Answered(c, 1) /\ log[c][1].status = 404
        /\ outcome[c].kind = "returned"

\* the call is a read of one of the three kinds that answer a 404 with null
ReadsNull(c) == op[c] \in {"getEvent", "getSyncToken", "getETag"}

\* C11 as stated: getEvent, listEvents, getSyncToken and getETag never reject
\* when their request is answered with 404; each resolves with null or with the
\* empty list.
ReadsNeverRaise404 ==
    \A c \in Calls :
        (/\ (ReadsNull(c) \/ op[c] = "listEvents")
         /\ Answered(c, 1) /\ log[c][1].status = 404) =>
            /\ pc[c] = "done"
            /\ outcome[c] \in {Returned(Null), Returned(<<>>)}

\* C11: getEvent, getSyncToken and getETag resolve with null, after that one
\* request, when it is answered with 404, and a GET of an item of listEvents
\* that is answered with 404 only leaves the item out of the list that is
\* returned; a PROPFIND of listEvents that is answered with 404 is the
\* rejection of listEvents with a "Failed to list calendar events" error.
NotFoundReadsAsNull ==
    \A c \in Calls :
        /\ (ReadsNull(c) /\ Answered(c, 1) /\ log[c][1].status = 404) =>
               /\ pc[c] = "done"
               /\ outcome[c] = Returned(Null)
               /\ Len(reqs[c]) = 1
        /\ (op[c] = "listEvents" /\ Answered(c, 1) /\ log[c][1].status = 404) =>
               /\ pc[c] = "done"
               /\ outcome[c].kind = "threw"
               /\ Includes(outcome[c].error.message, "Failed to list calendar events")
               /\ Len(reqs[c]) = 1
        /\ \A i \in 2..Len(log[c]) :
               (op[c] = "listEvents" /\ log[c][i].status = 404 /\ pc[c] = "done") =>
                   /\ outcome[c].kind = "returned"
                   /\ Len(outcome[c].value) <= Len(reqs[c]) - 2

\* a HEAD answered with 404 and an ETag header: getETag resolved with null
ETagOf404Reached ==
    \E c \in Calls :
        /\ op[c] = "getETag" /\ pc[c] = "done"
        /\ Answered(c, 1) /\ log[c][1].status = 404
        /\ loc[c].response.etag = E2
        /\ outcome[c] = Returned(Null)

\* the REPORT of the call was answered with one of the statuses
ReportAnswered(c, statuses) == Answered(c, 1) /\ log[c][1].status \in statuses

\* the call went on from its REPORT to the PROPFIND of listEvents, and did not
\* settle with the error of the REPORT
FellBackToList(c) ==
    /\ Len(reqs[c]) >= 2
    /\ reqs[c][1].method = "REPORT"
    /\ reqs[c][2].method = "PROPFIND"
    /\ fn[c] = "listEvents"
    /\ (pc[c] = "done" /\ outcome[c].kind = "threw") =>
           ~Includes(outcome[c].error.message, "CalDAV REPORT failed")

\* the call resolved with a result that has success = false and skipped = true
ReturnedSkipped(c) ==
    /\ pc[c] = "done"
    /\ outcome[c].kind = "returned"
    /\ "skipped" \in outcome[c].value.keys
    /\ outcome[c].value.skipped
    /\ ~outcome[c].value.success
    /\ Len(reqs[c]) = 1

\* C12 as stated: a REPORT answered with 405, 501 or 403 is never raised as an
\* error: queryEvents falls back to listEvents and syncCollection returns a
\* skipped result.
UnsupportedNeverRaised ==
    \A c \in Calls :
        /\ (op[c] = "queryEvents" /\ ReportAnswered(c, {405, 501, 403})) => FellBackToList(c)
        /\ (op[c] = "syncCollection" /\ ReportAnswered(c, {405, 501, 403})) =>
               ReturnedSkipped(c)

\* C12: a REPORT of syncCollection answered with 405, 501 or 403 is never
\* raised: syncCollection returns a skipped result; a REPORT of queryEvents
\* answered with 405 or 501 is never raised: queryEvents falls back to
\* listEvents; a REPORT of queryEvents answered with 403 is raised: queryEvents
\* rejects with a "CalDAV REPORT failed" error and issues no other request.
UnsupportedReportHandled ==
    \A c \in Calls :
        /\ (op[c] = "queryEvents" /\ ReportAnswered(c, {405, 501})) => FellBackToList(c)
        /\ (op[c] = "queryEvents" /\ ReportAnswered(c, {403})) =>
               /\ pc[c] = "done"
               /\ outcome[c].kind = "threw"
               /\ Includes(outcome[c].error.message, "CalDAV REPORT failed")
               /\ Len(reqs[c]) = 1
        /\ (op[c] = "syncCollection" /\ ReportAnswered(c, {405, 501, 403})) =>
               ReturnedSkipped(c)

\* a query answered with 405 fell back to a PROPFIND that listed no event
QueryFellBackOn405Reached ==
    \E c \in Calls :
        /\ op[c] = "queryEvents" /\ pc[c] = "done"
        /\ ReportAnswered(c, {405})
        /\ FellBackToList(c)
        /\ Succeeded(c, 2)
        /\ outcome[c] = Returned(<<>>)

\* the uid that the request of a call addresses: the uid of the event of a PUT,
\* the uid argument of a DELETE, GET or HEAD
UidAddressed(c) ==
    IF IsCreate(c)
    THEN (IF Truthy(loc[c].event.uid) THEN loc[c].event.uid ELSE GeneratedUid)
    ELSE loc[c].uid

\* C13: every PUT, DELETE, GET and HEAD is sent to the base URL and the calendar
\* path the client was constructed with, followed by the uid and ".ics": the uid
\* of the call for the request of a create, update, delete, getEvent or getETag,
\* and for a GET of listEvents the uid it took from the href of the item; every
\* PROPFIND and REPORT is sent to the base URL followed by the calendar path.
RequestsAddressTheCalendar ==
    /\ \E baseUrl \in BaseUrlArgs, config \in Configs : client = Constructor(baseUrl, config)
    /\ \A c \in Calls :
        \A i \in 1..Len(reqs[c]) :
            LET request == reqs[c][i]
            IN  IF request.method \in {"PROPFIND", "REPORT"}
                THEN request.url = client.baseUrl \o client.calendarPath
                ELSE /\ request.method \in {"PUT", "DELETE", "GET", "HEAD"}
                     /\ \E uid \in Uids \cup {GeneratedUid} : request.url = UrlOfUid(uid)
                     /\ fn[c] # "listEvents" =>
                            /\ i = 1
                            /\ request.url = UrlOfUid(UidAddressed(c))
                            /\ request.method =
                                   (CASE IsCreate(c) \/ op[c] = "updateEvent" -> "PUT"
                                      [] op[c] = "deleteEvent" -> "DELETE"
                                      [] op[c] = "getEvent" -> "GET"
                                      [] op[c] = "getETag" -> "HEAD")
                     /\ fn[c] = "listEvents" =>
                            /\ i > Propfind(c)
                            /\ request.method = "GET"
                            /\ request.url =
                                   ItemUrls(SubSeq(loc[c].hrefs, 1, loc[c].next - 1))[i - Propfind(c)]

\* a client constructed with a base URL argument sent a HEAD for "u2"
HeadSentToArgUrlReached ==
    \E c \in Calls :
        /\ op[c] = "getETag"
        /\ client.baseUrl = <<"http://arg:1">>
        /\ Len(reqs[c]) = 1
        /\ reqs[c][1].method = "HEAD"
        /\ reqs[c][1].url = <<"http://arg:1">> \o client.calendarPath \o U2 \o <<".ics">>

----------------------------------------------------------------------------
(* Properties of the configuration *)

\* a source gives a setting when its value is neither undefined nor null
Given(v) == v # Undefined /\ v # Null

\* C14: a client just constructed has as baseUrl the constructor argument when
\* one is given, else the baseUrl of the configuration when it has one, else
\* http://xandikos:8000; as calendarPath that of the configuration when it has
\* one, else /stonewall/calendars/calendar/; and as each timeout that of the
\* configuration when it has one, else 3000 (list), 5000 (query), 5000 (sync).
ConstructorResolvesInOrder ==
    last.op = "construct" =>
        LET config == heap[store]
        IN  /\ Given(last.baseUrl) => client.baseUrl = last.baseUrl
            /\ (~Given(last.baseUrl) /\ Given(config.baseUrl)) =>
                   client.baseUrl = config.baseUrl
            /\ (~Given(last.baseUrl) /\ ~Given(config.baseUrl)) =>
                   client.baseUrl = <<"http://xandikos:8000">>
            /\ client.calendarPath =
                   (IF Given(config.calendarPath) THEN config.calendarPath
                    ELSE <<"/", "stonewall", "/", "calendars", "/", "calendar", "/">>)
            /\ client.listTimeout =
                   (IF config.listTimeout # NoNumber THEN config.listTimeout ELSE 3000)
            /\ client.queryTimeout =
                   (IF config.queryTimeout # NoNumber THEN config.queryTimeout ELSE 5000)
            /\ client.syncTimeout =
                   (IF config.syncTimeout # NoNumber THEN config.syncTimeout ELSE 5000)

\* a client constructed with an argument over a configuration that has a baseUrl
\* and a calendarPath, but no listTimeout
ArgumentOverConfigReached ==
    /\ last = [op |-> "construct", baseUrl |-> <<"http://arg:1">>]
    /\ heap[store].baseUrl = <<"http://test:8000">>
    /\ client.baseUrl = <<"http://arg:1">>
    /\ client.calendarPath = <<"/", "b", "/">>
    /\ client.listTimeout = 3000

\* the configure call, among the first n of calls, that was the last to supply
\* the key, or 0 when none of them supplied it
RECURSIVE LastSupplying(_, _, _)
LastSupplying(calls, key, n) ==
    IF n = 0 THEN 0
    ELSE IF key \in calls[n].keys THEN n
    ELSE LastSupplying(calls, key, n - 1)

\* o[key], the property of a configuration object
Property(o, key) ==
    CASE key = "baseUrl" -> o.baseUrl
      [] key = "calendarPath" -> o.calendarPath
      [] key = "listTimeout" -> o.listTimeout
      [] key = "queryTimeout" -> o.queryTimeout
      [] key = "syncTimeout" -> o.syncTimeout

\* the configuration has each key as the last configure call that supplied it
\* gave it, and does not have a key that no call supplied: it is the key-wise
\* right-biased merge of the calls
IsMergeOf(config, calls) ==
    \A key \in {"baseUrl", "calendarPath", "listTimeout", "queryTimeout", "syncTimeout"} :
        LET n == LastSupplying(calls, key, Len(calls))
        IN  IF n = 0 THEN key \notin config.keys
            ELSE key \in config.keys /\ Property(config, key) = Property(calls[n], key)

\* C15: the configuration that the store holds, which is what a getConfig
\* returns, is always the key-wise right-biased merge of the arguments of the
\* configure calls made since the last resetConfig, and is empty when there was
\* none; the object a getConfig has just returned is equal to it and is never
\* the object of the store, so what the caller assigns to the object it holds
\* changes nothing of the store.
GetConfigReturnsMergedCopy ==
    /\ IsMergeOf(heap[store], configured)
    /\ configured = <<>> => heap[store].keys = {}
    /\ held # store
    /\ last.op = "getConfig" =>
           /\ held # NoRef
           /\ IsMergeOf(heap[held], configured)
           /\ heap[held] = heap[store]

\* the caller changed the baseUrl of the object it got after two configure
\* calls, the second overriding the baseUrl of the first and adding a
\* calendarPath, and the store kept what was configured
MutatedCopyReached ==
    /\ last.op = "mutate"
    /\ Len(configured) = 2
    /\ configured[1].baseUrl = <<"http://a">>
    /\ heap[held].baseUrl = <<"http://mutated">>
    /\ heap[store].baseUrl = <<"http://test:8000">>
    /\ heap[store].calendarPath = <<"/", "b", "/">>

----------------------------------------------------------------------------
(* Properties of the helper functions *)

\* the helper function was applied to its argument
Applied(f) == fun = f /\ ret.done

\* the parsed event has none of the fields that generateICalData writes only
\* for an event that has them
ConditionalFieldsAbsent(event) ==
    /\ event.description = Undefined
    /\ event.location = Undefined
    /\ event.dtstart = Undefined
    /\ event.dtend = Undefined
    /\ event.organizer = Undefined
    /\ event.categories = NoCategories
    /\ event.registrationUrl = Undefined
    /\ event.rrule = Undefined

\* C16 as stated: an event with only uid set keeps its uid through
\* generateICalData and parseICalData, and the parsed event has no title,
\* description, location, dtstart, dtend, createdAt, updatedAt, organizer,
\* categories, registrationUrl or rrule.
UidOnlyEventKeepsAbsence ==
    Applied("generateICalData") =>
        /\ ret.value.uid = arg.uid
        /\ ret.value.title = Undefined
        /\ ret.value.createdAt = Undefined
        /\ ret.value.updatedAt = Undefined
        /\ ConditionalFieldsAbsent(ret.value)

\* C16: an event with only uid set, the uid having no line feed, keeps its uid
\* through generateICalData and parseICalData, and the parsed event has no
\* description, location, dtstart, dtend, organizer, categories,
\* registrationUrl or rrule; its title is "Untitled Event" and its createdAt
\* and updatedAt are the time of the generation, to the second.
UidOnlyEventGetsDefaults ==
    (Applied("generateICalData") /\ \A i \in 1..Len(arg.uid) : arg.uid[i] # "\n") =>
        /\ ret.value.uid = arg.uid
        /\ ret.value.title = <<"Untitled Event">>
        /\ ret.value.createdAt = SubSeq(NowDate, 1, 19) \o <<"Z">>
        /\ ret.value.updatedAt = SubSeq(NowDate, 1, 19) \o <<"Z">>
        /\ ConditionalFieldsAbsent(ret.value)
        /\ ret.value.caldavEtag = Undefined
        /\ ret.value.caldavUrl = Undefined

\* the uid "u:u," came back with the default title
UidWithColonReached ==
    /\ Applied("generateICalData")
    /\ arg.uid = <<"u", ":", ",">>
    /\ ret.value.uid = <<"u", ":", ",">>
    /\ ret.value.title = <<"Untitled Event">>

\* the text has a backslash immediately followed by the letter n
HasBackslashN(text) == \E i \in 1..(Len(text) - 1) : text[i] = "\\" /\ text[i + 1] = "n"

\* C17: unescapeText(escapeText(T)) equals T for every text T of backslashes,
\* semicolons, commas, line feeds and letters in which no backslash is
\* immediately followed by the letter n, and differs from T for every text T in
\* which one is.
EscapeRoundTripsUnlessBackslashN ==
    Applied("escapeText") => (ret.value = arg <=> ~HasBackslashN(arg))

\* a backslash followed by a comma and a line feed came back as it was
EscapedTextCameBackReached ==
    /\ Applied("escapeText")
    /\ arg = <<"\\", ",", "\n">>
    /\ escapeText(arg) = <<"\\", "\\", "\\", ",", "\\", "n">>
    /\ ret.value = arg

\* C18: for every UTC instant d of a four-digit year, formatDateTime(d) is a
\* string of 16 characters, YYYYMMDDTHHMMSSZ, so never of the 8 characters
\* that parseDateTime takes for a date without time, and
\* parseDateTime(formatDateTime(d)) is d written as YYYY-MM-DDTHH:MM:SSZ, its
\* milliseconds dropped.
DateRoundTripsToSeconds ==
    Applied("formatDateTime") =>
        LET formatted == ret.value.formatted
        IN  /\ Len(formatted) = 16
            /\ Len(formatted) # 8
            /\ \A i \in (1..8) \cup (10..15) : formatted[i] \in Digits
            /\ formatted[9] = "T" /\ formatted[16] = "Z"
            /\ formatted = SubSeq(arg, 1, 4) \o SubSeq(arg, 6, 7) \o SubSeq(arg, 9, 13)
                           \o SubSeq(arg, 15, 16) \o SubSeq(arg, 18, 19) \o <<"Z">>
            /\ Len(ret.value.parsed) = 20
            /\ ret.value.parsed = SubSeq(arg, 1, 19) \o <<"Z">>

\* the last millisecond of the year 9999 came back as its last second
LastInstantReached ==
    /\ Applied("formatDateTime")
    /\ SubSeq(arg, 1, 4) = <<"9", "9", "9", "9">>
    /\ SubSeq(arg, 20, 24) = <<".", "9", "9", "9", "Z">>
    /\ ret.value.formatted[15] = "9"
    /\ ret.value.parsed =
           <<"9", "9", "9", "9", "-", "1", "2", "-", "3", "1", "T",
             "2", "3", ":", "5", "9", ":", "5", "9", "Z">>

\* the href of the response is a string that ends in .ics
IsIcsResponse(resp) ==
    /\ resp.href # NonString /\ resp.href # Undefined /\ resp.href # <<>>
    /\ resp.href[Len(resp.href)] = ".ics"

\* some propstat of the response has a status text that contains '404'
Tells404(resp) ==
    \E j \in 1..Len(resp.propstat) : Includes(resp.propstat[j].status, "404")

\* the changes are those of the .ics responses, one each and in their order
ChangesFollow(changes, responses) ==
    LET kept == SelectSeq(responses, IsIcsResponse)
    IN  /\ Len(changes) = Len(kept)
        /\ \A i \in 1..Len(kept) :
               /\ changes[i].href = kept[i].href
               /\ changes[i].status = (IF Tells404(kept[i]) THEN "deleted" ELSE "modified")

\* C19 as stated: for every multistatus body parseSyncCollectionResponse
\* returns success = true, the top-level sync-token, and one change per
\* response whose href ends in .ics, in document order, 'deleted' if and only
\* if a propstat of the response tells 404 and 'modified' otherwise.
SyncBodyAlwaysParses ==
    (Applied("parseSyncCollectionResponse") /\ arg.multistatus) =>
        /\ ret.value.success
        /\ ret.value.syncToken = arg.syncToken
        /\ ChangesFollow(ret.value.changes, arg.response)

\* a response that has a string for href has a propstat whose status is a number
StatusIsNoText(responses) ==
    \E i \in 1..Len(responses) :
        /\ responses[i].href # NonString
        /\ \E j \in 1..Len(responses[i].propstat) :
               responses[i].propstat[j].status = NonString

\* C19: for a multistatus body in which no response with a string href has a
\* status that the XML parser read as a number, parseSyncCollectionResponse
\* returns success = true, the top-level sync-token, and one change per
\* response whose href ends in .ics, in document order, 'deleted' if and only
\* if a propstat of the response tells 404 and 'modified' otherwise, the other
\* responses being dropped; for a multistatus body that has such a status it
\* returns success = false with the error 'Failed to parse sync response'.
SyncBodyParsesUnlessStatusIsNoText ==
    (Applied("parseSyncCollectionResponse") /\ arg.multistatus) =>
        IF StatusIsNoText(arg.response)
        THEN /\ ~ret.value.success
             /\ ret.value.error = <<"Failed to parse sync response">>
             /\ ret.value.keys = {"success", "error"}
        ELSE /\ ret.value.success
             /\ ret.value.keys = {"success", "syncToken", "changes"}
             /\ ret.value.syncToken = arg.syncToken
             /\ ChangesFollow(ret.value.changes, arg.response)

\* of the collection and an event whose propstats tell 404 and then 200, the
\* event alone came back, as deleted
DeletedDespite200Reached ==
    /\ Applied("parseSyncCollectionResponse")
    /\ arg.syncToken = T1
    /\ Len(arg.response) = 2
    /\ arg.response[1].href = HrefCollection
    /\ arg.response[2].href = HrefU2
    /\ Len(arg.response[2].propstat) = 2
    /\ ret.value.success
    /\ ret.value.syncToken = T1
    /\ ret.value.changes = <<[href |-> HrefU2, etag |-> E2, status |-> "deleted"]>>

\* every href returned ends in .ics
AllEndInIcs(hrefs) == \A i \in 1..Len(hrefs) : hrefs[i][Len(hrefs[i])] = ".ics"

\* the hrefs of the responses of the body whose href is a string that ends in
\* .ics, in document order; a body that does not parse has no response
IcsHrefsOfResponses(xml) ==
    LET kept == SelectSeq(xml.response, IsIcsResponse)
    IN  [i \in 1..Len(kept) |-> kept[i].href]

\* C20 as stated: extractHrefsFromPropfind returns exactly the hrefs of the
\* multistatus responses that end in .ics, in document order, on the structured
\* path and on the regex path; every href returned ends in .ics; and the result
\* is empty when the body has no multistatus root.
ExtractsOnlyResponseHrefs ==
    Applied("extractHrefsFromPropfind") =>
        /\ ret.value = IcsHrefsOfResponses(arg)
        /\ AllEndInIcs(ret.value)
        /\ ~arg.multistatus => ret.value = <<>>

\* C20: for a body that parses, extractHrefsFromPropfind returns exactly the
\* hrefs of the multistatus responses that end in .ics, in document order, and
\* the empty list when the body has no multistatus root; for a body that the
\* parser throws on, it returns the text of every href element of the body that
\* is at least one character followed by .ics, in document order, whether or
\* not the body has a multistatus root; on both paths every href returned ends
\* in .ics.
ExtractsIcsHrefsOnBothPaths ==
    Applied("extractHrefsFromPropfind") =>
        /\ AllEndInIcs(ret.value)
        /\ (~arg.throws /\ arg.multistatus) => ret.value = IcsHrefsOfResponses(arg)
        /\ (~arg.throws /\ ~arg.multistatus) => ret.value = <<>>
        /\ arg.throws =>
               LET texts == arg.regexHrefs
                   kept == {i \in 1..Len(texts) :
                               Len(texts[i]) >= 2 /\ texts[i][Len(texts[i])] = ".ics"}
               IN  /\ Len(ret.value) = Cardinality(kept)
                   /\ \A i \in kept :
                          ret.value[Cardinality({j \in kept : j <= i})] = texts[i]

\* a body that does not parse, with the href of the collection and the href of
\* an event: the pattern found the event
FallbackFoundEventReached ==
    /\ Applied("extractHrefsFromPropfind")
    /\ arg.throws
    /\ arg.regexHrefs = <<HrefCollection, HrefU1>>
    /\ ret.value = <<HrefU1>>

----------------------------------------------------------------------------
(* Properties of the results of a sync *)

\* syncCollection of the call resolved with a result that has success = true
SyncSucceeded(c) ==
    /\ op[c] = "syncCollection" /\ pc[c] = "done"
    /\ outcome[c].kind = "returned"
    /\ outcome[c].value.success

\* C21 as stated: a result with success = true has a syncToken
SuccessfulSyncHasToken ==
    \A c \in Calls : SyncSucceeded(c) => Truthy(outcome[c].value.syncToken)

\* C21: a result of syncCollection with success = true is what
\* parseSyncCollectionResponse made of a body with a multistatus root: its
\* syncToken is the top-level sync-token of that body, present when the body
\* has one and undefined when the body has none.
SuccessfulSyncHasTokenOfBody ==
    \A c \in Calls :
        SyncSucceeded(c) =>
            \E xml \in SyncBodies :
                /\ ~xml.throws /\ xml.multistatus
                /\ outcome[c].value.syncToken = xml.syncToken
                /\ outcome[c].value.changes = ChangesOf(xml.response)
                /\ "syncToken" \in outcome[c].value.keys

\* a sync succeeded on a body that has a change and no sync-token
SyncSucceededWithoutTokenReached ==
    \E c \in Calls :
        /\ SyncSucceeded(c)
        /\ outcome[c].value.syncToken = Undefined
        /\ Len(outcome[c].value.changes) = 1

\* the propstats of the response that give an etag: the status text contains
\* '200' and not '404', and there is a prop
GivesEtag(resp) ==
    {j \in 1..Len(resp.propstat) :
        /\ ~Includes(resp.propstat[j].status, "404")
        /\ Includes(resp.propstat[j].status, "200")
        /\ resp.propstat[j].prop # <<>>}

\* the getetag of the last prop of the last propstat that gives one
EtagTold(resp) ==
    IF GivesEtag(resp) = {} THEN Undefined
    ELSE LET j == CHOOSE k \in GivesEtag(resp) : \A l \in GivesEtag(resp) : l <= k
             props == resp.propstat[j].prop
         IN  props[Len(props)].getetag

----------------------------------------------------------------------------
(* Properties of the deadlines and of the requests of a call *)

\* the methods that arm a deadline
Deadlined == {"listEvents", "queryEvents", "syncCollection"}

\* the timeout of the client that the method f arms its timer with
TimeoutOf(f) ==
    CASE f = "listEvents" -> client.listTimeout
      [] f = "queryEvents" -> client.queryTimeout
      [] f = "syncCollection" -> client.syncTimeout

\* C23: a call has at most one timer armed at any time; a timer is armed only
\* while listEvents, queryEvents or syncCollection awaits its PROPFIND or
\* REPORT, and it is the timer of the method that awaits, armed with that
\* method's timeout: it is there until it fires or the request settles, and
\* gone once the request has settled, whether with an ok response, a status
\* that is not ok, the fallback of queryEvents to listEvents, an abort or
\* another failure; a call that has completed has no timer pending.
DeadlineDisarmedWhenSettled ==
    \A c \in Calls :
        /\ Cardinality(timers[c]) <= 1
        /\ pc[c] = "done" => timers[c] = {}
        /\ timers[c] # {} =>
               /\ fn[c] \in Deadlined /\ pc[c] = "fetch"
               /\ timers[c] = {Timer(fn[c], TimeoutOf(fn[c]))}
        /\ (fn[c] \in Deadlined /\ pc[c] = "fetch" /\ ~aborted[c]) => timers[c] # {}

\* a queryEvents answered 405 listed the collection, fetched an item and
\* returned, with no timer left
FallbackLeftNoTimerReached ==
    \E c \in Calls :
        /\ op[c] = "queryEvents" /\ fn[c] = "listEvents" /\ pc[c] = "done"
        /\ Len(log[c]) = 3 /\ log[c][1].status = 405 /\ log[c][3].status = 200
        /\ outcome[c].kind = "returned"
        /\ timers[c] = {}

\* the operations that the claim gives exactly one request
SingleRequest ==
    {"createEvent", "createEventWithETag", "updateEvent", "deleteEvent", "getEvent",
     "getSyncToken", "syncCollection", "getETag"}

\* the requests of the call from position p on are those of one listEvents: a
\* PROPFIND, then the GETs of the hrefs the loop has passed, one for each href
\* that has a uid and in their order
RequestsOfOneList(c, p) ==
    LET gets == SubSeq(reqs[c], p + 1, Len(reqs[c]))
        due == ItemUrls(SubSeq(loc[c].hrefs, 1, loc[c].next - 1))
    IN  /\ Len(reqs[c]) >= p
        /\ reqs[c][p].method = "PROPFIND"
        /\ Len(gets) <= Len(loc[c].hrefs)
        /\ Len(gets) = Len(due)
        /\ \A i \in 1..Len(gets) : gets[i].method = "GET" /\ gets[i].url = due[i]

\* C24 as stated: a call that has completed has issued exactly one request
\* when it is one of the eight single-request operations; a PROPFIND and then
\* at most one GET per href when it is listEvents; one REPORT when it is
\* queryEvents, followed only after a 501 or 405 by the requests of one
\* listEvents.
ExactlyOneRequestPerCall ==
    \A c \in Calls :
        pc[c] = "done" =>
            /\ op[c] \in SingleRequest => Len(reqs[c]) = 1
            /\ op[c] = "listEvents" => RequestsOfOneList(c, 1)
            /\ op[c] = "queryEvents" =>
                   /\ Len(reqs[c]) >= 1
                   /\ reqs[c][1].method = "REPORT"
                   /\ Len(reqs[c]) > 1 =>
                          /\ Answered(c, 1) /\ log[c][1].status \in {501, 405}
                          /\ RequestsOfOneList(c, 2)

\* the operation threw while it built the body of its request: the event of
\* createEvent, createEventWithETag or updateEvent, or the filter of
\* queryEvents, has a date that is not valid
ThrewBeforeRequest(c) ==
    CASE IsCreate(c) \/ op[c] = "updateEvent" ->
             generateICalData([loc[c].event EXCEPT !.uid = loc[c].uid]) = Throws
      [] op[c] = "queryEvents" -> loc[c].error = RangeError
      [] OTHER -> FALSE

\* C24: no operation sends a request again. From its call on, each of the
\* eight single-request operations has issued exactly one request, whatever
\* the outcome, unless it threw while building the body of the request, and
\* then it has issued none; listEvents has issued one PROPFIND followed by at
\* most one GET per extracted href; queryEvents has issued one REPORT (none
\* when it threw while building its body) followed, only after a 501 or 405,
\* by the requests of one listEvents; a failure or a timeout is followed by no
\* request of the same operation.
NoRequestIsRepeated ==
    \A c \in Calls :
        pc[c] # "idle" =>
            /\ op[c] \in SingleRequest =>
                   Len(reqs[c]) = (IF ThrewBeforeRequest(c) THEN 0 ELSE 1)
            /\ op[c] = "listEvents" => RequestsOfOneList(c, 1)
            /\ op[c] = "queryEvents" =>
                   IF ThrewBeforeRequest(c) THEN reqs[c] = <<>> /\ pc[c] = "done"
                   ELSE /\ Len(reqs[c]) >= 1
                        /\ reqs[c][1].method = "REPORT"
                        /\ Len(reqs[c]) > 1 <=> fn[c] = "listEvents"
                        /\ fn[c] = "listEvents" =>
                               /\ Answered(c, 1) /\ log[c][1].status \in {501, 405}
                               /\ RequestsOfOneList(c, 2)
            /\ ThrewBeforeRequest(c) => outcome[c] = Threw(RangeError) /\ log[c] = <<>>
            /\ (log[c] # <<>> /\ log[c][Len(log[c])].failed /\ pc[c] = "done"
                    /\ fn[c] # "listEvents") =>
                   Len(reqs[c]) = 1

\* createEvent was handed an event whose dtstart is not a date: it rejected
\* and no request was sent
CreateThrewBeforeRequestReached ==
    \E c \in Calls :
        /\ op[c] = "createEvent" /\ pc[c] = "done"
        /\ loc[c].event.dtstart = BadDateText
        /\ outcome[c] = Threw(RangeError)
        /\ reqs[c] = <<>>

\* the step leaves everything of the call d as it is: its position, its locals,
\* its timer, its abort signal, its requests, their replies and its outcome
CallUntouched(d) ==
    /\ pc'[d] = pc[d] /\ op'[d] = op[d] /\ fn'[d] = fn[d] /\ loc'[d] = loc[d]
    /\ timers'[d] = timers[d] /\ aborted'[d] = aborted[d]
    /\ reqs'[d] = reqs[d] /\ log'[d] = log[d] /\ outcome'[d] = outcome[d]

\* the step is one of the call c alone, and it leaves the client as constructed
StepOfOneCall ==
    /\ client' = client
    /\ \E c \in Calls : \A d \in Calls \ {c} : CallUntouched(d)

\* the abort signal of a call is raised by a timer of that call only
OwnTimerAborts ==
    \A c \in Calls :
        (aborted'[c] /\ ~aborted[c]) =>
            /\ timers[c] # {}
            /\ timers'[c] # timers[c]
            /\ pc'[c] = pc[c] /\ reqs'[c] = reqs[c] /\ log'[c] = log[c]

\* a call that has completed settled on the replies to its own requests: as
\* aborted when its own signal was raised, and else as its last reply tells
SettledOnOwnReplies ==
    \A c \in Calls :
        pc[c] = "done" =>
            /\ log[c] # <<>>
            /\ Len(log[c]) >= Len(reqs[c])
            /\ aborted[c] =>
                   /\ log[c] = <<Failure>>
                   /\ outcome[c] = (IF op[c] = "listEvents" THEN Returned(<<>>)
                                    ELSE Returned(FailureResult(<<"Sync timeout">>)))
            /\ (op[c] = "syncCollection" /\ Answered(c, 1) /\ ~Ok(log[c][1])) =>
                   outcome[c] = Returned(syncCollectionNotOk(loc[c].response))
            /\ (op[c] = "listEvents" /\ Answered(c, 1) /\ ~Ok(log[c][1])) =>
                   outcome[c] = Threw(Failed("Failed to list calendar events", loc[c].response))
            /\ (op[c] = "listEvents" /\ Succeeded(c, 1) /\ Len(log[c]) >= Len(reqs[c])
                    /\ ~log[c][Len(log[c])].failed) =>
                   outcome[c] = Returned(loc[c].events)

\* C25: with two calls of listEvents or syncCollection in flight on one client
\* in any interleaving, every step is a step of one call and leaves the locals,
\* the timer, the abort signal, the requests, the replies and the outcome of
\* the other call as they are; the abort signal of a call is raised only when
\* a timer of that call fires, so a call that has completed has settled on the
\* replies to its own requests; and no step changes the baseUrl, the
\* calendarPath or a timeout of the client.
CallsDoNotInterfere ==
    /\ [][StepOfOneCall /\ OwnTimerAborts]_vars
    /\ []SettledOnOwnReplies

\* the deadline of a listEvents fired and the call returned no event, while
\* the syncCollection in flight beside it was answered and succeeded
OtherCallOutlivedAbortReached ==
    /\ op["c1"] = "listEvents" /\ pc["c1"] = "done"
    /\ aborted["c1"] /\ outcome["c1"] = Returned(<<>>)
    /\ op["c2"] = "syncCollection" /\ pc["c2"] = "done"
    /\ ~aborted["c2"]
    /\ outcome["c2"].kind = "returned"
    /\ outcome["c2"].value.success
    /\ Len(outcome["c2"].value.changes) = 2

----------------------------------------------------------------------------
(* Properties of a client and the configuration *)

\* C26: the settings of a client are captured at its construction: a step
\* that is a configure, a resetConfig, a getConfig or an assignment to the
\* object a getConfig returned leaves the baseUrl, the calendarPath and the
\* timeouts of the client as they were; they change only when a client is
\* constructed. The client that exists before any constructor call is the
\* singleton calendarClient, made when the module was loaded.
ClientKeepsItsSettings ==
    [][last'.op # "construct" =>
           /\ client'.baseUrl = client.baseUrl
           /\ client'.calendarPath = client.calendarPath
           /\ client'.listTimeout = client.listTimeout
           /\ client'.queryTimeout = client.queryTimeout
           /\ client'.syncTimeout = client.syncTimeout]_vars

\* a configure that followed the construction of a client gave the store a
\* baseUrl, a calendarPath and a listTimeout, and the client has the defaults
\* it was constructed with
ConfiguredAfterConstructionReached ==
    /\ last.op = "configure"
    /\ Len(configured) = 2
    /\ heap[store].baseUrl = <<"http://test:8000">>
    /\ heap[store].calendarPath = <<"/", "b", "/">>
    /\ heap[store].listTimeout = 100
    /\ client = Constructor(Undefined, EmptyObject)
    /\ client.baseUrl = <<"http://xandikos:8000">>
    /\ client.listTimeout = 3000

\* C27: the deadline of listEvents covers its PROPFIND only. Once the PROPFIND
\* is answered the call has no timer, so no timeout can fire for it; the GETs
\* of the items carry no abort signal, the PROPFIND alone carries one; the
\* abort signal of the call is raised only while the PROPFIND is in flight, no
\* GET having been sent; and a call whose signal was raised has failed its
\* PROPFIND and returns the empty sequence.
ListDeadlineCoversPropfindOnly ==
    \A c \in Calls :
        fn[c] = "listEvents" =>
            LET p == Propfind(c)
            IN  /\ pc[c] # "fetch" => timers[c] = {}
                /\ Len(log[c]) >= p => timers[c] = {}
                /\ Len(reqs[c]) >= p /\ reqs[c][p].method = "PROPFIND" /\ reqs[c][p].signal
                /\ \A i \in (p + 1)..Len(reqs[c]) :
                       reqs[c][i].method = "GET" /\ ~reqs[c][i].signal
                /\ aborted[c] =>
                       /\ Len(reqs[c]) = p
                       /\ pc[c] \in {"fetch", "done"}
                       /\ pc[c] = "done" =>
                              /\ log[c][p] = Failure
                              /\ outcome[c] = Returned(<<>>)
                /\ pc[c] \in {"text", "itemFetch", "itemText"} => ~aborted[c]

\* listEvents awaits the GET of its second item: the call has no timer, its
\* signal was not raised, and the GETs carry no signal
SecondItemAwaitedWithoutDeadlineReached ==
    \E c \in Calls :
        /\ op[c] = "listEvents" /\ pc[c] = "itemFetch"
        /\ Len(reqs[c]) = 3 /\ Len(log[c]) = 2
        /\ reqs[c][1].signal /\ ~reqs[c][2].signal /\ ~reqs[c][3].signal
        /\ timers[c] = {}
        /\ ~aborted[c]

\* the places <<i, j, k>> of the calendar-data of a body that give an event:
\* prop k of propstat j of response i has calendar-data, and the status text of
\* the propstat contains '200'
Slots(responses) ==
    UNION {UNION {{<<i, j, k>> :
                      k \in {k \in 1..Len(responses[i].propstat[j].prop) :
                                /\ Includes(responses[i].propstat[j].status, "200")
                                /\ responses[i].propstat[j].prop[k].calendarData # Undefined}} :
                  j \in 1..Len(responses[i].propstat)} :
           i \in 1..Len(responses)}

\* the place t is not after the place u in the document
NotAfter(t, u) ==
    \/ t[1] < u[1]
    \/ t[1] = u[1] /\ t[2] < u[2]
    \/ t[1] = u[1] /\ t[2] = u[2] /\ t[3] <= u[3]

\* some propstat of the body has a status that the parser read as a number:
\* status.includes raises
QueryStatusIsNoText(responses) ==
    \E i \in 1..Len(responses) : \E j \in 1..Len(responses[i].propstat) :
        responses[i].propstat[j].status = NonString

\* C28: parseCalendarQueryResponse returns one event per calendar-data of a
\* propstat whose status text contains '200', in document order, decoded by
\* parseICalData, with the getetag beside the calendar-data as caldavEtag when
\* there is one and baseUrl followed by the href of the response as caldavUrl
\* when there is one; a propstat with another status gives no event; and when
\* the processing of any response raises (a status that is not text), or the
\* body does not parse or has no multistatus root, the result is the empty
\* sequence, whatever was decoded before.
QueryEventsComeFrom200Propstats ==
    Applied("parseCalendarQueryResponse") =>
        IF arg.throws \/ ~arg.multistatus \/ QueryStatusIsNoText(arg.response)
        THEN ret.value = <<>>
        ELSE LET slots == Slots(arg.response)
             IN  /\ Len(ret.value) = Cardinality(slots)
                 /\ \A t \in slots :
                        LET resp == arg.response[t[1]]
                            prop == resp.propstat[t[2]].prop[t[3]]
                            decoded == parseICalData(prop.calendarData)
                            event == ret.value[Cardinality({u \in slots : NotAfter(u, t)})]
                        IN  /\ event.uid = decoded.uid
                            /\ event.caldavEtag =
                                   (IF prop.getetag # Undefined THEN prop.getetag
                                    ELSE decoded.caldavEtag)
                            /\ event.caldavUrl =
                                   (IF resp.href # Undefined THEN client.baseUrl \o resp.href
                                    ELSE decoded.caldavUrl)
                            /\ event = [decoded EXCEPT !.caldavEtag = event.caldavEtag,
                                                       !.caldavUrl = event.caldavUrl]

\* the first response gave an event from its 200 propstat and none from its
\* 404 propstat, the second has a status that is not text: nothing came back
PartialListDroppedReached ==
    /\ Applied("parseCalendarQueryResponse")
    /\ Len(arg.response) = 2
    /\ Len(arg.response[1].propstat) = 2
    /\ arg.response[1].propstat[1].status = Status404
    /\ Slots(<<arg.response[1]>>) = {<<1, 2, 2>>}
    /\ QueryStatusIsNoText(<<arg.response[2]>>)
    /\ ret.value = <<>>

----------------------------------------------------------------------------
(* Properties of the answers whose body does not parse *)

\* the call read the body of its answer, and the body is in arg
BodyRead(c) == c \in live /\ fun = "response.text"

\* the body is malformed (the parser throws on it) or unexpected (it has no
\* multistatus root)
Malformed(xml) == xml.throws \/ ~xml.multistatus

\* the call has ended after it read a malformed or unexpected body
EndedOnMalformedBody(c) == pc[c] = "done" /\ BodyRead(c) /\ Malformed(arg)

\* the result of syncCollection, queryEvents and getSyncToken for such a body
DegradedResult(c) ==
    CASE fn[c] = "queryEvents" -> outcome[c] = Returned(<<>>)
      [] fn[c] = "syncCollection" ->
             /\ outcome[c].kind = "returned"
             /\ ~outcome[c].value.success
      [] fn[c] = "getSyncToken" -> outcome[c] = Returned(Null)
      [] OTHER -> FALSE

\* C29 as stated: a call that read a malformed or unexpected body of an ok
\* answer resolves with [] (listEvents, queryEvents), with success = false
\* (syncCollection) or with null (getSyncToken).
MalformedBodyGivesNothing ==
    \A c \in Calls :
        EndedOnMalformedBody(c) =>
            IF fn[c] = "listEvents" THEN outcome[c] = Returned(<<>>)
            ELSE DegradedResult(c)

\* the uids of the href elements that the regular expression of the fallback
\* finds in the body
RegexUids(xml) ==
    {UidOfHref(xml.regexHrefs[i]) :
        i \in {k \in 1..Len(xml.regexHrefs) : MatchesHrefPattern(xml.regexHrefs[k])}}

\* C29: a call that read a malformed or unexpected body of an ok answer never
\* rejects: queryEvents resolves with [], syncCollection with success = false,
\* getSyncToken with null, and listEvents with [] unless the parser threw and
\* the regular expression found .ics hrefs in the body, when it resolves with
\* the events it could fetch with one GET for each of those hrefs.
MalformedBodyNeverRejects ==
    \A c \in Calls :
        EndedOnMalformedBody(c) =>
            IF fn[c] = "listEvents"
            THEN /\ outcome[c].kind = "returned"
                 /\ Len(outcome[c].value) < Len(reqs[c])
                 /\ \A i \in 1..Len(reqs[c]) :
                        reqs[c][i].method = "GET" =>
                            \E uid \in RegexUids(arg) : reqs[c][i] = GetRequest(uid)
                 /\ RegexUids(arg) = {} => outcome[c].value = <<>>
            ELSE DegradedResult(c)

\* listEvents read a body the parser throws on and resolved with an event
ListedFromMalformedBodyReached ==
    \E c \in Calls :
        /\ EndedOnMalformedBody(c)
        /\ fn[c] = "listEvents"
        /\ arg.throws
        /\ outcome[c].kind = "returned"
        /\ outcome[c].value # <<>>

----------------------------------------------------------------------------
(* Properties of the URL lines of an iCalendar text *)

\* the line is a URL line: its text before the first colon is URL
IsUrlLine(line) == line # <<>> /\ line[1] = "URL" /\ (Len(line) > 1 => line[2] = ":")

\* the value of a URL line: the text after its first colon
UrlValue(line) == SubSeq(line, 3, Len(line))

\* the values of the URL lines of the text, in the order of the lines
RECURSIVE UrlValuesOfLines(_)
UrlValuesOfLines(lines) ==
    IF lines = <<>> THEN <<>>
    ELSE (IF IsUrlLine(Head(lines)) THEN <<UrlValue(Head(lines))>> ELSE <<>>)
         \o UrlValuesOfLines(Tail(lines))

UrlValuesOf(text) == UrlValuesOfLines(SplitLines(text))

\* C30 as stated: of several URL lines the first one gives registrationUrl,
\* whatever its value.
FirstUrlLineWins ==
    (Applied("parseICalData") /\ Len(UrlValuesOf(arg)) >= 2) =>
        ret.value.registrationUrl = UrlValuesOf(arg)[1]

\* the values that are not empty
NonEmptyOnes(values) == SelectSeq(values, Truthy)

\* C30: of several URL lines the first one whose value is not empty gives
\* registrationUrl and every later URL line is ignored; URL lines with an
\* empty value before it are passed over, and registrationUrl is the empty
\* string when every URL line has an empty value.
FirstNonEmptyUrlLineWins ==
    (Applied("parseICalData") /\ UrlValuesOf(arg) # <<>>) =>
        LET values == UrlValuesOf(arg)
        IN  /\ ret.value.registrationUrl =
                   (IF NonEmptyOnes(values) = <<>> THEN <<>> ELSE NonEmptyOnes(values)[1])
            /\ Truthy(values[1]) => ret.value.registrationUrl = values[1]

\* a text with an empty URL line before another URL line was parsed: the later
\* line gave registrationUrl
LaterUrlLineUsedReached ==
    /\ Applied("parseICalData")
    /\ Len(UrlValuesOf(arg)) >= 2
    /\ ~Truthy(UrlValuesOf(arg)[1])
    /\ Truthy(UrlValuesOf(arg)[2])
    /\ ret.value.registrationUrl = UrlValuesOf(arg)[2]

=============================================================================
